---- MODULE Spec2Model ----
(***************************************************************************)
(* A model of llm_test_bench.py: the schema adapters of the Gemini and     *)
(* OpenAI paths, the three provider calls and the dispatcher loops.        *)
(*                                                                         *)
(* Python dicts are objects on a heap: a dict is reached through its       *)
(* address, dict.copy() allocates a new dict whose values (addresses       *)
(* included) are those of the original, and an assignment d[k] = v         *)
(* changes the one object every holder of its address sees.                *)
(***************************************************************************)
EXTENDS Integers, Sequences, FiniteSets, TLC

VARIABLES
    heap,       \* the dict objects, by address 1..Len(heap)
    mode,       \* which entry point of the program this behaviour exercises
    pc,         \* position of the running entry point
    input,      \* what was read from configuration, as a value (never changes)
    arg,        \* address (or list) handed to the function under call
    out,        \* what the calls returned, in call order
    creds,      \* self.bedrock_client, self.openai_headers, self.gemini_headers: set or not
    dir_images, \* the image files of the image directory, sorted
    expanded,   \* expanded_test_cases (addresses)
    ti,         \* run_all_tests: index of the test case being run
    ii,         \* run_test_case: index of the image being processed
    pi,         \* run_test_case: index of the provider being driven
    image_tc,   \* run_test_case: image_test_case (address)
    provider_results,
    image_results,
    all_results,    \* all_test_case_results
    now,        \* the clock
    calls,      \* history: the provider calls made so far
    sleeps      \* history: the delays slept so far

dvars == <<creds, dir_images, expanded, ti, ii, pi, image_tc, provider_results,
           image_results, all_results, now, calls, sleeps>>

vars == <<heap, mode, pc, input, arg, out, dvars>>

\* the dispatcher is not running
DispatcherIdle ==
    /\ creds = [bedrock_client |-> FALSE, openai_headers |-> FALSE, gemini_headers |-> FALSE]
    /\ dir_images = <<>>
    /\ expanded = <<>>
    /\ ti = 0 /\ ii = 0 /\ pi = 0
    /\ image_tc = 0
    /\ provider_results = <<>>
    /\ image_results = <<>>
    /\ all_results = <<>>
    /\ now = 0
    /\ calls = <<>>
    /\ sleeps = <<>>

(***************************************************************************)
(* Bounds of the model.                                                    *)
(***************************************************************************)
MaxNodes == 3
MaxTools == 2

(***************************************************************************)
(* Python dict: insertion-ordered keys and a value per key.                *)
(***************************************************************************)
EmptyDict == [keys |-> <<>>, vals |-> [k \in {} |-> 0]]

Has(d, k) == k \in DOMAIN d.vals

Put(d, k, v) ==
    [keys |-> IF Has(d, k) THEN d.keys ELSE Append(d.keys, k),
     vals |-> [x \in (DOMAIN d.vals) \cup {k} |-> IF x = k THEN v ELSE d.vals[x]]]

Del(d, k) ==
    [keys |-> SelectSeq(d.keys, LAMBDA x : x # k),
     vals |-> [x \in (DOMAIN d.vals) \ {k} |-> d.vals[x]]]

\* a new object holding d; its address is Len of the returned heap
Alloc(h, d) == Append(h, d)

\* dict.copy(): a new dict with the same keys and the same values
DictCopy(h, a) == Alloc(h, h[a])

\* isinstance(v, dict): v is the address of a dict
IsDict(h, v) == v \in DOMAIN h

(***************************************************************************)
(* Schemas as values (what the YAML document says), with optional keys as  *)
(* sequences of length 0 or 1:                                             *)
(*   [type, ap, props, items, req, enum]                                   *)
(*   type  : "object", "string"                                            *)
(*   enum  : <<>> or << <<value, ...>> >>                                  *)
(*   ap    : additionalProperties,  <<>> or <<FALSE>>                      *)
(*   props : properties, <<>> or << <<[name, schema], ...>> >>             *)
(*   items : <<>> or <<schema>>                                            *)
(*   req   : required, <<>> or << <<name, ...>> >>                         *)
(***************************************************************************)
Node(ap, props, items, req) ==
    [type |-> "object", ap |-> ap, props |-> props, items |-> items, req |-> req, enum |-> <<>>]

PropNames == <<"a", "b">>

RECURSIVE SchemasOfSize(_)
RECURSIVE PropsOfSize(_)
OptSchemaOfSize(n) == IF n = 0 THEN { <<>> } ELSE { <<s>> : s \in SchemasOfSize(n) }

PropsOfSize(n) ==
    IF n = 0 THEN { <<>>, << <<>> >> }
    ELSE { << << [name |-> PropNames[1], schema |-> s] >> >> : s \in SchemasOfSize(n) }
         \cup UNION { { << << [name |-> PropNames[1], schema |-> s],
                              [name |-> PropNames[2], schema |-> t] >> >> :
                          s \in SchemasOfSize(j), t \in SchemasOfSize(n - j) } : j \in 1..(n - 1) }

SchemasOfSize(n) ==
    IF n = 0 THEN {}
    ELSE UNION { { Node(ap, p, i, <<>>) :
                     ap \in { <<>>, <<FALSE>> }, p \in PropsOfSize(k), i \in OptSchemaOfSize(n - 1 - k) } :
                 k \in 0..(n - 1) }

CleanSchemas == UNION { SchemasOfSize(n) : n \in 1..MaxNodes }

\* d[k] = v on the dict at address a
SetItem(h, a, k, v) == [h EXCEPT ![a] = Put(@, k, v)]

\* d[k] = <the object a step returned>, for a step result l = [h, r]
Attach(l, a, k) == SetItem(l.h, a, k, l.r)

(***************************************************************************)
(* yaml.safe_load: the document becomes fresh dict objects.                *)
(* Load returns [h |-> heap, r |-> address of the schema's dict].          *)
(***************************************************************************)
RECURSIVE Load(_, _)
RECURSIVE LoadProps(_, _, _, _)

LoadProps(h, p, plist, i) ==
    IF i > Len(plist) THEN h
    ELSE LoadProps(Attach(Load(h, plist[i].schema), p, plist[i].name), p, plist, i + 1)

LoadProperties(h, a, s) ==
    IF s.props = <<>> THEN h
    ELSE LoadProps(SetItem(Alloc(h, EmptyDict), a, "properties", Len(h) + 1), Len(h) + 1, s.props[1], 1)

LoadRequired(h, a, s) == IF s.req = <<>> THEN h ELSE SetItem(h, a, "required", s.req[1])

LoadItems(h, a, s) == IF s.items = <<>> THEN h ELSE Attach(Load(h, s.items[1]), a, "items")

LoadAdditionalProperties(h, a, s) ==
    IF s.ap = <<>> THEN h ELSE SetItem(h, a, "additionalProperties", s.ap[1])

Load(h, s) ==
    [h |-> LoadAdditionalProperties(
               LoadItems(
                   LoadRequired(
                       LoadProperties(Alloc(h, Put(EmptyDict, "type", "object")), Len(h) + 1, s),
                       Len(h) + 1, s),
                   Len(h) + 1, s),
               Len(h) + 1, s),
     r |-> Len(h) + 1]

(***************************************************************************)
(* The value of the schema at address a: what json.dumps would show.       *)
(***************************************************************************)
RECURSIVE Dump(_, _)
Dump(h, a) ==
    LET d == h[a]
    IN  [type  |-> d.vals["type"],
         enum  |-> IF Has(d, "enum") THEN <<d.vals["enum"]>> ELSE <<>>,
         ap    |-> IF Has(d, "additionalProperties") THEN <<d.vals["additionalProperties"]>> ELSE <<>>,
         props |-> IF Has(d, "properties")
                   THEN LET p == h[d.vals["properties"]]
                        IN  << [i \in 1..Len(p.keys) |->
                                  [name |-> p.keys[i], schema |-> Dump(h, p.vals[p.keys[i]])]] >>
                   ELSE <<>>,
         items |-> IF Has(d, "items") THEN <<Dump(h, d.vals["items"])>> ELSE <<>>,
         req   |-> IF Has(d, "required") THEN <<d.vals["required"]>> ELSE <<>>]

\* a step result [h, r] with the value of what it returned
Dumped(c) == [r |-> c.r, v |-> Dump(c.h, c.r)]

(***************************************************************************)
(* _clean_schema_for_gemini.  Returns [h |-> heap, r |-> address].         *)
(***************************************************************************)
RECURSIVE CleanSchemaForGemini(_, _)
RECURSIVE CleanProperties(_, _, _)

\* if 'additionalProperties' in cleaned: del cleaned['additionalProperties']
DelAdditionalProperties(h, cleaned) ==
    IF Has(h[cleaned], "additionalProperties")
    THEN [h EXCEPT ![cleaned] = Del(@, "additionalProperties")]
    ELSE h

\* if 'items' in cleaned and isinstance(cleaned['items'], dict): cleaned['items'] = clean(...)
CleanItems(h, cleaned) ==
    IF Has(h[cleaned], "items") /\ IsDict(h, h[cleaned].vals["items"])
    THEN Attach(CleanSchemaForGemini(h, h[cleaned].vals["items"]), cleaned, "items")
    ELSE h

\* a variant that leaves the nested property schemas as they are
CleanPropertiesNotRecursing(h, p, i) == h

\* for prop_key, prop_value in cleaned['properties'].items(): ...
CleanProperties(h, p, i) ==
    IF i > Len(h[p].keys) THEN h
    ELSE IF IsDict(h, h[p].vals[h[p].keys[i]])
    THEN CleanProperties(Attach(CleanSchemaForGemini(h, h[p].vals[h[p].keys[i]]), p, h[p].keys[i]),
                         p, i + 1)
    ELSE CleanProperties(h, p, i + 1)

\* if 'properties' in cleaned: ...
CleanPropertiesOf(h, cleaned) ==
    IF Has(h[cleaned], "properties")
    THEN CleanProperties(h, h[cleaned].vals["properties"], 1)
    ELSE h

\* a variant with "elif": once additionalProperties is deleted, nothing below is visited
CleanSchemaElif(h, schema) ==
    IF Has(h[schema], "additionalProperties")
    THEN [h |-> DelAdditionalProperties(DictCopy(h, schema), Len(h) + 1), r |-> Len(h) + 1]
    ELSE [h |-> CleanItems(CleanPropertiesOf(DictCopy(h, schema), Len(h) + 1), Len(h) + 1),
          r |-> Len(h) + 1]

\* cleaned = schema.copy(); ...; return cleaned
CleanSchemaForGemini(h, schema) ==
    [h |-> CleanItems(
               CleanPropertiesOf(
                   DelAdditionalProperties(DictCopy(h, schema), Len(h) + 1),
                   Len(h) + 1),
               Len(h) + 1),
     r |-> Len(h) + 1]

(***************************************************************************)
(* Strip-unsupported as a function under test: the caller loads a schema   *)
(* and calls _clean_schema_for_gemini on it, then on what it returned.     *)
(***************************************************************************)
InitClean ==
    \E s \in CleanSchemas :
        \E l \in {Load(<<>>, s)} :
            /\ heap = l.h
            /\ mode = "clean"
            /\ pc = "call"
            /\ input = s
            /\ arg = l.r
            /\ out = <<>>
            /\ DispatcherIdle

CleanCall ==
    /\ mode = "clean"
    /\ pc = "call"
    /\ Len(out) < 2
    /\ \E c \in {CleanSchemaForGemini(heap, IF out = <<>> THEN arg ELSE out[Len(out)].r)} :
          /\ heap' = c.h
          /\ out' = Append(out, Dumped(c))
    /\ UNCHANGED <<mode, pc, input, arg, dvars>>

NextClean == CleanCall

SpecClean == InitClean /\ [][NextClean]_vars

(***************************************************************************)
(* _create_union_schema_for_gemini.  tools is the list of the tool dicts'  *)
(* addresses.  Returns [h |-> heap, r |-> address of the envelope].        *)
(***************************************************************************)
InSeq(x, s) == \E i \in 1..Len(s) : s[i] = x

ItemTypeDescription == "The type of analysis performed - which tool was conceptually used"

\* union_properties = {"item_type": {"type": "string", "enum": [names], "description": ...}}
ItemType(h, tools) ==
    [keys |-> <<"type", "enum", "description">>,
     vals |-> [type |-> "string",
               enum |-> [i \in 1..Len(tools) |-> h[tools[i]].vals["name"]],
               description |-> ItemTypeDescription]]

RECURSIVE MergeProperties(_, _, _, _)
RECURSIVE AddRequired(_, _, _)
RECURSIVE MergeTools(_, _, _, _, _)

\* for prop_name, prop_def in schema["properties"].items():
\*     if prop_name not in union_properties: union_properties[prop_name] = prop_def.copy()
MergeProperties(h, union_properties, p, i) ==
    IF i > Len(h[p].keys) THEN h
    ELSE IF ~Has(h[union_properties], h[p].keys[i])
    THEN MergeProperties(SetItem(DictCopy(h, h[p].vals[h[p].keys[i]]),
                                 union_properties, h[p].keys[i], Len(h) + 1),
                         union_properties, p, i + 1)
    ELSE MergeProperties(h, union_properties, p, i + 1)

\* for req_field in schema["required"]: if req_field not in all_required: append
AddRequired(all_required, required, i) ==
    IF i > Len(required) THEN all_required
    ELSE AddRequired(IF InSeq(required[i], all_required) THEN all_required
                     ELSE Append(all_required, required[i]),
                     required, i + 1)

\* for tool in tools: ...   Returns [h, all_required].
MergeTools(h, union_properties, all_required, tools, t) ==
    IF t > Len(tools) THEN [h |-> h, all_required |-> all_required]
    ELSE LET schema == h[h[tools[t]].vals["schema"]]
         IN  IF Has(schema, "properties")
             THEN MergeTools(MergeProperties(h, union_properties, schema.vals["properties"], 1),
                             union_properties,
                             IF Has(schema, "required")
                             THEN AddRequired(all_required, schema.vals["required"], 1)
                             ELSE all_required,
                             tools, t + 1)
             ELSE MergeTools(h, union_properties, all_required, tools, t + 1)

\* return {"type": "object", "properties": union_properties, "required": all_required}
UnionSchema(m, union_properties) ==
    [h |-> Alloc(m.h, [keys |-> <<"type", "properties", "required">>,
                       vals |-> [type |-> "object",
                                 properties |-> union_properties,
                                 required |-> m.all_required]]),
     r |-> Len(m.h) + 1]

CreateUnionSchemaForGemini(h, tools) ==
    UnionSchema(MergeTools(Alloc(Alloc(h, ItemType(h, tools)),
                                 Put(EmptyDict, "item_type", Len(h) + 1)),
                           Len(h) + 2, <<"item_type">>, tools, 1),
                Len(h) + 2)

(***************************************************************************)
(* Tool lists as values: <<[name, schema], ...>>, and their loading.       *)
(***************************************************************************)
ToolNames == <<"t1", "t2", "t3">>

Leaf(ap) == Node(ap, <<>>, <<>>, <<>>)

\* property definitions of a tool: plain, with additionalProperties, nested
PropDefs ==
    { Leaf(<<>>), Leaf(<<FALSE>>),
      Node(<<>>, << << [name |-> "n", schema |-> Leaf(<<FALSE>>)] >> >>, <<>>, <<>>) }

ToolProps ==
    { <<>> }
    \cup { << << [name |-> "a", schema |-> d] >> >> : d \in PropDefs }
    \cup { << << [name |-> "b", schema |-> Leaf(<<>>)] >> >>,
           << << [name |-> "a", schema |-> Leaf(<<FALSE>>)], [name |-> "b", schema |-> Leaf(<<>>)] >> >> }

ToolReqs == { <<>>, << <<"a">> >>, << <<"b">> >>, << <<"b", "a">> >> }

ToolSchemas == { Node(<<>>, p, <<>>, r) : p \in ToolProps, r \in ToolReqs }

\* the lists of n tools
ToolLists(n) ==
    { [i \in 1..n |-> [name |-> ToolNames[i], schema |-> f[i]]] : f \in [1..n -> ToolSchemas] }

\* the dict of a tool whose schema was loaded by l = [h, r]
LoadTool(l, name) ==
    Alloc(l.h, [keys |-> <<"name", "description", "schema">>,
                vals |-> [name |-> name, description |-> "d", schema |-> l.r]])

RECURSIVE LoadTools(_, _, _, _)
\* the tool just allocated is the last object of the heap
LoadNextTool(h, tlist, i, acc) == LoadTools(h, tlist, i + 1, Append(acc, Len(h)))

\* Returns [h |-> heap, r |-> the list of the tool dicts' addresses].
LoadTools(h, tlist, i, acc) ==
    IF i > Len(tlist) THEN [h |-> h, r |-> acc]
    ELSE LoadNextTool(LoadTool(Load(h, tlist[i].schema), tlist[i].name), tlist, i, acc)

DumpTools(h, tools) ==
    [i \in 1..Len(tools) |-> [name   |-> h[tools[i]].vals["name"],
                              schema |-> Dump(h, h[tools[i]].vals["schema"])]]

(***************************************************************************)
(* Union-of-tools as a function under test.                                *)
(***************************************************************************)
InitUnion ==
    \E n \in 1..MaxTools : \E tl \in ToolLists(n) :
        \E l \in {LoadTools(<<>>, tl, 1, <<>>)} :
            /\ heap = l.h
            /\ mode = "union"
            /\ pc = "call"
            /\ input = tl
            /\ arg = l.r
            /\ out = <<>>
            /\ DispatcherIdle

UnionCall ==
    /\ mode = "union"
    /\ pc = "call"
    /\ out = <<>>
    /\ \E u \in {CreateUnionSchemaForGemini(heap, arg)} :
          /\ heap' = u.h
          /\ out' = <<Dumped(u)>>
    /\ UNCHANGED <<mode, pc, input, arg, dvars>>

NextUnion == UnionCall

SpecUnion == InitUnion /\ [][NextUnion]_vars

(***************************************************************************)
(* Test cases and provider configurations.                                 *)
(* A test case as a value: [name, image, schema, tools], the last three    *)
(* optional.  A provider configuration: [name, model].                     *)
(***************************************************************************)
TestCaseName == "Receipt Test"

\* test_case.get('name', default).lower().replace(' ', '_')
ToolNameOf(tc, default) ==
    IF Has(tc, "name")
    THEN (IF tc.vals["name"] = "Receipt Test" THEN "receipt_test" ELSE tc.vals["name"])
    ELSE default

\* d[k] = v when the document has the key
PutIf(present, d, k, v) == IF present THEN Put(d, k, v) ELSE d

\* the schema of the document, loaded: [h, r]
LoadSchemaOf(h, t) == IF t.schema = <<>> THEN [h |-> h, r |-> 0] ELSE Load(h, t.schema[1])

\* a step result together with the address of the schema loaded before it
WithSchema(l, schema) == [h |-> l.h, schema |-> schema, r |-> l.r]

\* the tools of the document, loaded after its schema: [h, schema, r]
LoadToolsOf(ls, t) ==
    IF t.tools = <<>> THEN [h |-> ls.h, schema |-> ls.r, r |-> <<>>]
    ELSE WithSchema(LoadTools(ls.h, t.tools[1], 1, <<>>), ls.r)

\* the dict of the test case whose schema and tools were loaded by lt
LoadTestCaseDict(lt, t) ==
    [h |-> Alloc(lt.h,
                 PutIf(t.tools # <<>>,
                       PutIf(t.schema # <<>>,
                             PutIf(t.image # <<>>,
                                   Put(Put(EmptyDict, "name", t.name), "prompt", "describe the image"),
                                   "image_path", IF t.image = <<>> THEN "" ELSE t.image[1]),
                             "schema", lt.schema),
                       "tools", lt.r)),
     r |-> Len(lt.h) + 1]

\* Returns [h |-> heap, r |-> address of the test case's dict].
LoadTestCase(h, t) == LoadTestCaseDict(LoadToolsOf(LoadSchemaOf(h, t), t), t)

\* what a test case dict says about structured output, read back from the heap
DumpStructure(h, tc) ==
    [schema |-> IF Has(h[tc], "schema") THEN <<Dump(h, h[tc].vals["schema"])>> ELSE <<>>,
     tools  |-> IF Has(h[tc], "tools") THEN <<DumpTools(h, h[tc].vals["tools"])>> ELSE <<>>]

\* the substrings of a lower-cased model identifier that the code tests for
ModelSubstrings ==
    [m \in {"anthropic.claude-3-sonnet", "meta.llama4-scout", "deepseek.r1",
            "mistral.pixtral-large", "amazon.nova-lite", "gpt-4o", "gemini-1.5-flash"} |->
        CASE m = "anthropic.claude-3-sonnet" -> {"anthropic", "claude"}
          [] m = "meta.llama4-scout"         -> {"llama"}
          [] m = "deepseek.r1"               -> {"deepseek"}
          [] m = "mistral.pixtral-large"     -> {"pixtral"}
          [] OTHER                           -> {}]

\* sub in model_id.lower()
Contains(model_id, sub) == sub \in ModelSubstrings[model_id]

(***************************************************************************)
(* What the world does to one provider call:                               *)
(*   kind "image_error"   : open(image_path) raises                        *)
(*   kind "network_error" : the HTTP client (or boto3) raises; msg is      *)
(*                          str(e), which is "" for an exception built     *)
(*                          without arguments (asyncio.TimeoutError, which *)
(*                          aiohttp raises when its total timeout expires) *)
(*   kind "http_error"    : the vendor answers with a status other than 200*)
(*   kind "ok"            : status 200 and the parsed body                 *)
(* dur is the time the call takes, in clock ticks.                         *)
(* Bodies are JSON values with every key optional (<<>>: absent).          *)
(***************************************************************************)
EmptyBody ==
    [isList |-> FALSE, list |-> <<>>,
     choices |-> <<>>, generation |-> <<>>, generated_text |-> <<>>, outputs |-> <<>>,
     text |-> <<>>, response |-> <<>>, usage |-> <<>>, token_count |-> <<>>, tokens_used |-> <<>>,
     content |-> <<>>, output |-> <<>>, candidates |-> <<>>, usageMetadata |-> <<>>]

Env(kind, msg, body, dur) == [kind |-> kind, msg |-> msg, body |-> body, dur |-> dur]

\* a choices entry: message (content, tool_calls) and text
Choice(message, text) == [message |-> message, text |-> text]
Message(content, tool_calls) == [content |-> content, tool_calls |-> tool_calls]
\* a tool call: function.arguments, <<>> when the path is missing
ToolCall(arguments) == [arguments |-> arguments]
\* an outputs entry or a list element
Output(text, generation, generated_text) ==
    [isDict |-> TRUE, text |-> text, generation |-> generation, generated_text |-> generated_text]
Usage(total, output, completion, outputTokens) ==
    [total_tokens |-> total, output_tokens |-> output, completion_tokens |-> completion,
     outputTokens |-> outputTokens]
\* an AWS-Claude content block
Block(type, text, inp) == [type |-> type, text |-> text, input |-> inp]
\* an AWS-Llama converse content entry
Entry(toolUse, text) == [toolUse |-> toolUse, text |-> text]

\* json.dumps(value, indent=2) of a JSON object, by the object's name
JsonDumps(v) == IF v = "empty_object" THEN "{}" ELSE "{\n  \"total\": 12\n}"
\* str(value) of a dict or list: its repr, never empty
StrOf(what) == "{...}"

\* the outcome of a step: an exception (its str) or a value
Raise(msg) == [exc |-> <<msg>>, text |-> "", tokens |-> 0]
Ok(text, tokens) == [exc |-> <<>>, text |-> text, tokens |-> tokens]

\* d.get(key, 0) on an optional integer
GetInt(opt) == IF opt = <<>> THEN 0 ELSE opt[1]
\* a or b on integers
OrInt(a, b) == IF a # 0 THEN a ELSE b

(***************************************************************************)
(* TestResult                                                              *)
(***************************************************************************)
TestResult(provider, model, response, latency_ms, error, tokens_used) ==
    [provider |-> provider, model |-> model, response |-> response,
     latency_ms |-> latency_ms, error |-> error, tokens_used |-> tokens_used]

\* (time.time() - start_time) * 1000
Latency(start_time, end_time) == (end_time - start_time) * 1000


(***************************************************************************)
(* What a provider call returns: [h, request, result]; request is <<>>     *)
(* when none was built.  tc is the address of the call's test case dict,   *)
(* env what the world does, start_time the clock at entry.                 *)
(***************************************************************************)
\* except Exception as e: return TestResult(..., response="", ..., error=str(e))
Failed(provider, h, tc, env, start_time, msg, req) ==
    [h |-> h, request |-> req,
     result |-> TestResult(provider, h[tc].vals["model"], "",
                           Latency(start_time, start_time + env.dur), <<msg>>, <<>>)]

\* return TestResult(..., response=response_text, ..., tokens_used=...)
Completed(provider, h, tc, env, start_time, x, req) ==
    [h |-> h, request |-> req,
     result |-> TestResult(provider, h[tc].vals["model"], x.text,
                           Latency(start_time, start_time + env.dur), <<>>, <<x.tokens>>)]

\* the extraction x raised, or gave the response text
Returned(provider, failed_provider, h, tc, env, start_time, x, req) ==
    IF x.exc # <<>> THEN Failed(failed_provider, h, tc, env, start_time, x.exc[1], req)
    ELSE Completed(provider, h, tc, env, start_time, x, req)

(***************************************************************************)
(* _call_gemini                                                            *)
(***************************************************************************)
\* candidate = response_data['candidates'][0]; candidate['content']['parts'][0]['text']
GeminiExtract(body) ==
    IF body.candidates = <<>> THEN Raise("'candidates'")
    ELSE IF body.candidates[1] = <<>> THEN Raise("list index out of range")
    ELSE IF body.candidates[1][1] = <<>> THEN Raise("'content'")
    ELSE Ok(body.candidates[1][1][1],
            IF body.usageMetadata = <<>> THEN 0 ELSE GetInt(body.usageMetadata[1]))

\* a variant that sets the response schema and leaves the MIME type out
GeminiConfigWithoutMimeType(c) ==
    [h |-> c.h,
     config |-> [responseMimeType |-> <<>>,
                 responseSchema   |-> <<Dump(c.h, c.r)>>]]

\* body["generationConfig"]["responseMimeType"] = ...; ["responseSchema"] = cleaned schema c
GeminiConfigOf(c) ==
    [h |-> c.h,
     config |-> [responseMimeType |-> <<"application/json">>,
                 responseSchema   |-> <<Dump(c.h, c.r)>>]]

\* cleaned_schema = self._clean_schema_for_gemini(union_schema)
CleanUnionSchema(u) == CleanSchemaForGemini(u.h, u.r)

\* the structured-output part of the request body: [h, config]
GeminiGenerationConfig(h, tc) ==
    IF Has(h[tc], "tools")
    THEN GeminiConfigOf(CleanUnionSchema(CreateUnionSchemaForGemini(h, h[tc].vals["tools"])))
    ELSE IF Has(h[tc], "schema")
    THEN GeminiConfigOf(CleanSchemaForGemini(h, h[tc].vals["schema"]))
    ELSE [h |-> h, config |-> [responseMimeType |-> <<>>, responseSchema |-> <<>>]]

GeminiRequest(g) == <<[vendor |-> "gemini", generationConfig |-> g.config]>>

\* session.post(...) and what follows it
GeminiRespond(g, tc, env, start_time) ==
    IF env.kind = "network_error"
    THEN Failed("gemini", g.h, tc, env, start_time, env.msg, GeminiRequest(g))
    ELSE IF env.kind = "http_error"
    THEN Failed("gemini", g.h, tc, env, start_time, "Gemini API error: {...}", GeminiRequest(g))
    ELSE Returned("gemini", "gemini", g.h, tc, env, start_time,
                  GeminiExtract(env.body), GeminiRequest(g))

CallGemini(h, tc, env, start_time) ==
    IF ~Has(h[tc], "image_path") THEN Failed("gemini", h, tc, env, start_time, "'image_path'", <<>>)
    ELSE IF env.kind = "image_error" THEN Failed("gemini", h, tc, env, start_time, env.msg, <<>>)
    ELSE GeminiRespond(GeminiGenerationConfig(h, tc), tc, env, start_time)

(***************************************************************************)
(* _call_openai                                                            *)
(***************************************************************************)
\* message = response_data['choices'][0]['message'] and the branches after it
OpenAIExtract(hasTools, body) ==
    IF body.choices = <<>> THEN Raise("'choices'")
    ELSE IF body.choices[1] = <<>> THEN Raise("list index out of range")
    ELSE IF body.choices[1][1].message = <<>> THEN Raise("'message'")
    ELSE LET message == body.choices[1][1].message[1]
             tokens  == IF body.usage = <<>> THEN 0 ELSE GetInt(body.usage[1].total_tokens)
         IN  IF hasTools /\ message.tool_calls # <<>>
             THEN IF message.tool_calls[1] = <<>> THEN Raise("list index out of range")
                  ELSE IF message.tool_calls[1][1].arguments = <<>> THEN Raise("'function'")
                  ELSE Ok(message.tool_calls[1][1].arguments[1], tokens)
             ELSE IF message.content = <<>> THEN Raise("'content'")
                  ELSE Ok(message.content[1], tokens)

\* list(openai_schema['properties'].keys())
KeysList(h, p) == h[p].keys

\* if 'properties' in openai_schema: openai_schema['required'] = list(...keys())
StrictRequired(h, openai_schema) ==
    IF Has(h[openai_schema], "properties")
    THEN SetItem(h, openai_schema, "required", KeysList(h, h[openai_schema].vals["properties"]))
    ELSE h

\* body["response_format"] = {"type": "json_schema", "json_schema": {...}}
ResponseFormat(h, tc, openai_schema) ==
    [h |-> h,
     tools |-> <<>>,
     tool_choice |-> <<>>,
     response_format |-> <<[type |-> "json_schema",
                            name |-> ToolNameOf(h[tc], "response"),
                            strict |-> TRUE,
                            schema |-> Dump(h, openai_schema)]>>]

\* the structured-output part of the request body: [h, tools, tool_choice, response_format]
OpenAIStructure(h, tc) ==
    IF Has(h[tc], "tools")
    THEN [h |-> h,
          tools |-> <<DumpTools(h, h[tc].vals["tools"])>>,
          tool_choice |-> <<"auto">>,
          response_format |-> <<>>]
    ELSE IF Has(h[tc], "schema")
    THEN ResponseFormat(StrictRequired(DictCopy(h, h[tc].vals["schema"]), Len(h) + 1), tc, Len(h) + 1)
    ELSE [h |-> h, tools |-> <<>>, tool_choice |-> <<>>, response_format |-> <<>>]

OpenAIRequest(o) ==
    <<[vendor |-> "openai", tools |-> o.tools, tool_choice |-> o.tool_choice,
       response_format |-> o.response_format]>>

\* session.post(...) and what follows it
OpenAIRespond(o, tc, env, start_time) ==
    IF env.kind = "network_error"
    THEN Failed("openai", o.h, tc, env, start_time, env.msg, OpenAIRequest(o))
    ELSE IF env.kind = "http_error"
    THEN Failed("openai", o.h, tc, env, start_time, "OpenAI API error: {...}", OpenAIRequest(o))
    ELSE Returned("openai", "openai", o.h, tc, env, start_time,
                  OpenAIExtract(Has(o.h[tc], "tools"), env.body), OpenAIRequest(o))

CallOpenAI(h, tc, env, start_time) ==
    IF ~Has(h[tc], "image_path") THEN Failed("openai", h, tc, env, start_time, "'image_path'", <<>>)
    ELSE IF env.kind = "image_error" THEN Failed("openai", h, tc, env, start_time, env.msg, <<>>)
    ELSE OpenAIRespond(OpenAIStructure(h, tc), tc, env, start_time)

(***************************************************************************)
(* _call_bedrock_model                                                     *)
(***************************************************************************)
\* the tools of the request: the configured tools, or one synthetic tool for a schema
ConfiguredTools(h, tc) == DumpTools(h, h[tc].vals["tools"])

\* a variant that names the synthetic tool by the default, whatever the test case's name
SyntheticToolByDefault(h, tc, default) ==
    <<[name |-> default, schema |-> Dump(h, h[tc].vals["schema"])]>>

\* body["tools"] = [{"name": tool_name, ..., "input_schema": test_case['schema']}]
SyntheticTool(h, tc, default) ==
    <<[name |-> ToolNameOf(h[tc], default), schema |-> Dump(h, h[tc].vals["schema"])]>>

BedrockRequestOf(api, format, tools, tool_choice) ==
    [vendor |-> "bedrock", api |-> api, format |-> format, tools |-> tools, tool_choice |-> tool_choice]

\* the request the call builds, by model family
BedrockRequest(h, tc) ==
    LET model_id == h[tc].vals["model"]
        is_claude_model == Contains(model_id, "anthropic") \/ Contains(model_id, "claude")
        has_image == Has(h[tc], "image_path")
    IN  IF is_claude_model
        THEN IF Has(h[tc], "tools")
             THEN BedrockRequestOf("invoke_model", "claude", <<ConfiguredTools(h, tc)>>,
                                   <<[type |-> "auto", name |-> ""]>>)
             ELSE IF Has(h[tc], "schema")
             THEN BedrockRequestOf("invoke_model", "claude",
                                   <<SyntheticTool(h, tc, "structured_response")>>,
                                   <<[type |-> "tool", name |-> ToolNameOf(h[tc], "structured_response")]>>)
             ELSE BedrockRequestOf("invoke_model", "claude", <<>>, <<>>)
        ELSE IF Contains(model_id, "llama")
        THEN IF has_image
             THEN IF Has(h[tc], "tools")
                  THEN BedrockRequestOf("converse", "converse", <<ConfiguredTools(h, tc)>>, <<>>)
                  ELSE IF Has(h[tc], "schema")
                  THEN BedrockRequestOf("converse", "converse",
                                        <<SyntheticTool(h, tc, "structured_response")>>, <<>>)
                  ELSE BedrockRequestOf("converse", "converse", <<>>, <<>>)
             ELSE BedrockRequestOf("invoke_model", "prompt_max_gen_len", <<>>, <<>>)
        ELSE IF Contains(model_id, "deepseek")
        THEN BedrockRequestOf("invoke_model", IF has_image THEN "messages" ELSE "prompt", <<>>, <<>>)
        ELSE IF Contains(model_id, "pixtral")
        THEN IF has_image
             THEN IF Has(h[tc], "tools")
                  THEN BedrockRequestOf("invoke_model", "messages", <<ConfiguredTools(h, tc)>>,
                                        <<[type |-> "auto", name |-> ""]>>)
                  ELSE IF Has(h[tc], "schema")
                  THEN BedrockRequestOf("invoke_model", "messages",
                                        <<SyntheticTool(h, tc, "response")>>,
                                        <<[type |-> "function", name |-> ToolNameOf(h[tc], "response")]>>)
                  ELSE BedrockRequestOf("invoke_model", "messages", <<>>, <<>>)
             ELSE BedrockRequestOf("invoke_model", "prompt", <<>>, <<>>)
        ELSE BedrockRequestOf("invoke_model", IF has_image THEN "messages" ELSE "prompt", <<>>, <<>>)

\* a variant that looks at the first content block only
ClaudeExtractFirstBlock(used_tools, body) ==
    IF body.isList THEN Raise("list indices must be integers or slices, not str")
    ELSE IF body.content = <<>> THEN Raise("'content'")
    ELSE IF body.content[1] = <<>> THEN Raise("list index out of range")
    ELSE IF used_tools /\ body.content[1][1].type = "tool_use" /\ body.content[1][1].input # <<>>
    THEN Ok(JsonDumps(body.content[1][1].input[1]), 0)
    ELSE IF body.content[1][1].text = <<>> THEN Raise("'text'")
    ELSE Ok(body.content[1][1].text[1], 0)

\* AWS-Claude: the first tool_use block when the call used tools, else the first block's text
ClaudeExtract(used_tools, body) ==
    LET tokens == IF body.usage = <<>> THEN 0 ELSE GetInt(body.usage[1].output_tokens)
        FirstText(blocks) ==
            IF blocks = <<>> THEN Raise("list index out of range")
            ELSE IF blocks[1].text = <<>> THEN Raise("'text'")
            ELSE Ok(blocks[1].text[1], tokens)
    IN  IF body.isList THEN Raise("list indices must be integers or slices, not str")
        ELSE IF used_tools /\ body.content # <<>>
        THEN LET blocks == body.content[1]
                 uses   == { i \in 1..Len(blocks) : blocks[i].type = "tool_use" }
             IN  IF uses # {}
                 THEN LET first == CHOOSE i \in uses : \A j \in uses : i <= j
                      IN  IF blocks[first].input = <<>> THEN Raise("'input'")
                          ELSE Ok(JsonDumps(blocks[first].input[1]), tokens)
                 ELSE FirstText(blocks)
        ELSE IF body.content = <<>> THEN Raise("'content'")
        ELSE FirstText(body.content[1])

\* a variant that indexes the path without asking whether it is there
ConverseExtractIndexing(body) ==
    IF body.output = <<>> THEN Raise("'output'")
    ELSE IF body.output[1].message = <<>> THEN Raise("'message'")
    ELSE IF body.output[1].message[1].content = <<>> THEN Raise("'content'")
    ELSE IF body.output[1].message[1].content[1] = <<>> THEN Ok("No content in Converse response", 0)
    ELSE IF body.output[1].message[1].content[1][1].text = <<>> THEN Raise("'text'")
    ELSE Ok(body.output[1].message[1].content[1][1].text[1], 0)

\* AWS-Llama conversation response
ConverseExtract(body) ==
    IF body.output # <<>> /\ body.output[1].message # <<>>
    THEN LET message == body.output[1].message[1]
             tokens  == IF body.usage = <<>> THEN 0 ELSE GetInt(body.usage[1].outputTokens)
         IN  IF message.content = <<>> THEN Raise("'content'")
             ELSE LET message_content == message.content[1]
                  IN  IF message_content # <<>>
                      THEN IF message_content[1].toolUse # <<>>
                           THEN IF message_content[1].toolUse[1] = <<>> THEN Raise("'input'")
                                ELSE Ok(JsonDumps(message_content[1].toolUse[1][1]), tokens)
                           ELSE IF message_content[1].text = <<>> THEN Raise("'text'")
                                ELSE Ok(message_content[1].text[1], tokens)
                      ELSE Ok("No content in Converse response", tokens)
    ELSE Ok("Unexpected Converse response format: {...}", 0)

\* output.get('text', output.get('generation', output.get('generated_text', str(output))))
ProbeOutput(output) ==
    IF output.text # <<>> THEN output.text[1]
    ELSE IF output.generation # <<>> THEN output.generation[1]
    ELSE IF output.generated_text # <<>> THEN output.generated_text[1]
    ELSE StrOf(output)

\* first_item.get('generated_text', first_item.get('text', str(first_item)))
ProbeFirstItem(first_item) ==
    IF first_item.isDict
    THEN IF first_item.generated_text # <<>> THEN first_item.generated_text[1]
         ELSE IF first_item.text # <<>> THEN first_item.text[1]
         ELSE StrOf(first_item)
    ELSE StrOf(first_item)

\* the choices branch: tool-call arguments, else the message content, else the choice
ChoicesText(body) ==
    IF body.choices[1] # <<>>
    THEN LET choice == body.choices[1][1]
         IN  IF choice.message # <<>>
             THEN LET message == choice.message[1]
                  IN  IF message.tool_calls # <<>> /\ message.tool_calls[1] # <<>>
                      THEN LET tool_call == message.tool_calls[1][1]
                           IN  IF tool_call.arguments # <<>> THEN tool_call.arguments[1]
                               ELSE StrOf(tool_call)
                      ELSE IF message.content # <<>> THEN message.content[1] ELSE StrOf(choice)
             ELSE IF choice.text # <<>> THEN choice.text[1] ELSE StrOf(choice)
    ELSE ""

\* the branches after choices and generation
FlatText(body) ==
    IF ~body.isList /\ body.generated_text # <<>> THEN body.generated_text[1]
    ELSE IF ~body.isList /\ body.outputs # <<>>
    THEN IF body.outputs[1] # <<>> THEN ProbeOutput(body.outputs[1][1]) ELSE ""
    ELSE IF ~body.isList /\ body.text # <<>> THEN body.text[1]
    ELSE IF ~body.isList /\ body.response # <<>> THEN body.response[1]
    ELSE IF body.isList /\ Len(body.list) > 0 THEN ProbeFirstItem(body.list[1])
    ELSE "UNKNOWN_FORMAT: {...}"

\* a variant that asks for generation before choices
GenericTextGenerationFirst(body) ==
    IF ~body.isList /\ body.generation # <<>> THEN body.generation[1]
    ELSE IF ~body.isList /\ body.choices # <<>> THEN ChoicesText(body)
    ELSE FlatText(body)

\* the response text of the other AWS models
GenericText(body) ==
    IF ~body.isList /\ body.choices # <<>> THEN ChoicesText(body)
    ELSE IF ~body.isList /\ body.generation # <<>> THEN body.generation[1]
    ELSE FlatText(body)

\* the token count of the other AWS models
GenericTokens(body) ==
    IF ~body.isList /\ body.usage # <<>>
    THEN OrInt(OrInt(OrInt(GetInt(body.usage[1].total_tokens), GetInt(body.usage[1].output_tokens)),
                     GetInt(body.usage[1].completion_tokens)), 0)
    ELSE IF ~body.isList /\ body.token_count # <<>> THEN body.token_count[1]
    ELSE IF ~body.isList /\ body.tokens_used # <<>> THEN body.tokens_used[1]
    ELSE 0

BedrockExtract(h, tc, body) ==
    LET model_id == h[tc].vals["model"]
        is_claude_model == Contains(model_id, "anthropic") \/ Contains(model_id, "claude")
    IN  IF is_claude_model
        THEN ClaudeExtract(Has(h[tc], "schema") \/ Has(h[tc], "tools"), body)
        ELSE IF Contains(model_id, "llama") /\ Has(h[tc], "image_path")
        THEN ConverseExtract(body)
        ELSE Ok(GenericText(body), GenericTokens(body))

\* test_case.get('provider_name', default)
ProviderNameOf(h, tc, default) ==
    IF Has(h[tc], "provider_name") THEN h[tc].vals["provider_name"] ELSE default

\* invoke_model / converse and what follows it
BedrockRespond(req, h, tc, env, start_time) ==
    IF env.kind \in {"network_error", "http_error"}
    THEN Failed(ProviderNameOf(h, tc, "bedrock_model"), h, tc, env, start_time, env.msg, req)
    ELSE Returned(ProviderNameOf(h, tc, "bedrock_claude"), ProviderNameOf(h, tc, "bedrock_model"),
                  h, tc, env, start_time, BedrockExtract(h, tc, env.body), req)

CallBedrock(h, tc, env, start_time) ==
    IF ~Has(h[tc], "image_path")
    THEN Failed(ProviderNameOf(h, tc, "bedrock_model"), h, tc, env, start_time, "'image_path'", <<>>)
    ELSE IF env.kind = "image_error"
    THEN Failed(ProviderNameOf(h, tc, "bedrock_model"), h, tc, env, start_time, env.msg, <<>>)
    ELSE BedrockRespond(<<BedrockRequest(h, tc)>>, h, tc, env, start_time)

(***************************************************************************)
(* run_test_case: the per-image and per-provider copies of the test case,  *)
(* and the routing of a provider name.                                     *)
(***************************************************************************)
\* image_test_case = test_case.copy(); image_test_case['image_path'] = image_path
\* (the new dict's address is Len of the returned heap)
ImageTestCase(h, tc, image_path) == SetItem(DictCopy(h, tc), Len(h) + 1, "image_path", image_path)

\* provider_test_case = image_test_case.copy(); ['model'] = model; ['provider_name'] = name
ProviderTestCase(h, itc, provider_config) ==
    SetItem(SetItem(DictCopy(h, itc), Len(h) + 1, "model", provider_config.model),
            Len(h) + 1, "provider_name", provider_config.name)

Provider(name, model) == [name |-> name, model |-> model]

\* the prefixes str.startswith is asked about, per provider name
NamePrefixes ==
    [n \in {"bedrock_claude", "bedrock_llama", "bedrock_deepseek", "bedrock_pixtral", "bedrock_nova",
            "openai_gpt4o", "gemini_flash", "openai", "gemini", "bedrock", "azure_gpt4"} |->
        CASE n \in {"bedrock_claude", "bedrock_llama", "bedrock_deepseek", "bedrock_pixtral",
                    "bedrock_nova"} -> {"bedrock_", "bedrock"}
          [] n = "bedrock"       -> {"bedrock"}
          [] n = "openai_gpt4o"  -> {"openai_", "openai"}
          [] n = "openai"        -> {"openai"}
          [] n = "gemini_flash"  -> {"gemini_", "gemini"}
          [] n = "gemini"        -> {"gemini"}
          [] OTHER               -> {}]

StartsWith(name, prefix) == prefix \in NamePrefixes[name]

\* _setup_clients: a client or header set per secret present in the environment
Secrets == {"AWS_ACCESS_KEY_ID", "OPENAI_API_KEY", "GEMINI_API_KEY"}

SetupClients(present) ==
    [bedrock_client |-> "AWS_ACCESS_KEY_ID" \in present,
     openai_headers |-> "OPENAI_API_KEY" \in present,
     gemini_headers |-> "GEMINI_API_KEY" \in present]

\* a variant that routes by the name alone
RouteIgnoringCredentials(provider_name, cr) ==
    IF StartsWith(provider_name, "bedrock_") THEN "bedrock"
    ELSE IF StartsWith(provider_name, "openai_") \/ provider_name = "openai" THEN "openai"
    ELSE IF StartsWith(provider_name, "gemini_") \/ provider_name = "gemini" THEN "gemini"
    ELSE "skip"

\* the if/elif chain of run_test_case: the call made for a provider name, or "skip"
Route(provider_name, cr) ==
    IF StartsWith(provider_name, "bedrock_") /\ cr.bedrock_client THEN "bedrock"
    ELSE IF StartsWith(provider_name, "openai_") /\ cr.openai_headers THEN "openai"
    ELSE IF StartsWith(provider_name, "gemini_") /\ cr.gemini_headers THEN "gemini"
    ELSE IF provider_name = "openai" /\ cr.openai_headers THEN "openai"
    ELSE IF provider_name = "gemini" /\ cr.gemini_headers THEN "gemini"
    ELSE "skip"

\* result = await self._call_...(provider_test_case)
Call(vendor, h, tc, env, start_time) ==
    CASE vendor = "bedrock" -> CallBedrock(h, tc, env, start_time)
      [] vendor = "openai"  -> CallOpenAI(h, tc, env, start_time)
      [] vendor = "gemini"  -> CallGemini(h, tc, env, start_time)

(***************************************************************************)
(* The answers of the vendors the model draws from.                        *)
(***************************************************************************)
WithChoices(choices) == [EmptyBody EXCEPT !.choices = <<choices>>]
TotalTokens(n) == <<Usage(<<n>>, <<>>, <<>>, <<>>)>>

ChatBody(content) ==
    [WithChoices(<<Choice(<<Message(<<content>>, <<>>)>>, <<>>)>>) EXCEPT !.usage = TotalTokens(30)]
ToolCallBody ==
    [WithChoices(<<Choice(<<Message(<<>>, << <<ToolCall(<<"{\"total\": 12}">>)>> >>)>>, <<>>)>>)
        EXCEPT !.usage = TotalTokens(30)]

OpenAIBodies ==
    { ChatBody("The total is 12"), ChatBody(""), ToolCallBody, WithChoices(<<>>), EmptyBody }

GeminiBody(candidates) ==
    [EmptyBody EXCEPT !.candidates = <<candidates>>, !.usageMetadata = << <<25>> >>]

GeminiBodies ==
    { GeminiBody(<< <<"{\"total\": 12}">> >>), GeminiBody(<< <<"">> >>), GeminiBody(<< <<>> >>),
      GeminiBody(<<>>), EmptyBody }

ClaudeBody(blocks) ==
    [EmptyBody EXCEPT !.content = <<blocks>>, !.usage = <<Usage(<<>>, <<20>>, <<>>, <<>>)>>]

TextBlock(text) == Block("text", <<text>>, <<>>)
ToolUseBlock == Block("tool_use", <<>>, <<"object">>)

ClaudeBodies ==
    { ClaudeBody(<<TextBlock("The total is 12")>>), ClaudeBody(<<TextBlock("")>>),
      ClaudeBody(<<TextBlock("I will call the tool"), ToolUseBlock>>),
      ClaudeBody(<<TextBlock("I will call the tool"), TextBlock("with these arguments"),
                   Block("tool_use", <<>>, <<"empty_object">>), ToolUseBlock>>),
      ClaudeBody(<<ToolUseBlock>>), ClaudeBody(<<>>), EmptyBody }

ConverseBody(content) ==
    [EmptyBody EXCEPT !.output = <<[message |-> <<[content |-> <<content>>]>>]>>,
                      !.usage = <<Usage(<<>>, <<>>, <<>>, <<15>>)>>]

ConverseBodies ==
    { ConverseBody(<<Entry(<<>>, <<"The total is 12">>)>>), ConverseBody(<<Entry(<<>>, <<"">>)>>),
      ConverseBody(<<Entry(<< <<"object">> >>, <<>>)>>), ConverseBody(<<>>),
      ConverseBody(<<Entry(<<>>, <<"I will call the tool">>), Entry(<< <<"object">> >>, <<>>)>>),
      [ConverseBody(<<Entry(<< <<"empty_object">> >>, <<>>)>>) EXCEPT !.usage = <<>>],
      [EmptyBody EXCEPT !.output = <<[message |-> <<>>]>>], EmptyBody }

GenericBodies ==
    OpenAIBodies
    \cup { [EmptyBody EXCEPT !.generation = <<"The total is 12">>],
           [EmptyBody EXCEPT !.generation = <<"">>],
           [ChatBody("from choices") EXCEPT !.generation = <<"from generation">>],
           [ToolCallBody EXCEPT !.generation = <<"from generation">>],
           [WithChoices(<<>>) EXCEPT !.generation = <<"from generation">>],
           [WithChoices(<<Choice(<<>>, <<"from text">>)>>) EXCEPT !.generation = <<"from generation">>],
           [EmptyBody EXCEPT !.outputs = << <<>> >>],
           [EmptyBody EXCEPT !.outputs = << <<Output(<<"The total is 12">>, <<>>, <<>>)>> >>],
           [EmptyBody EXCEPT !.isList = TRUE, !.list = <<Output(<<"The total is 12">>, <<>>, <<>>)>>],
           [EmptyBody EXCEPT !.isList = TRUE,
                             !.list = <<Output(<<"from text">>, <<>>, <<"from generated_text">>)>>],
           [EmptyBody EXCEPT !.isList = TRUE, !.list = <<Output(<<>>, <<"from generation">>, <<>>)>>],
           [EmptyBody EXCEPT !.usage = <<Usage(<<>>, <<>>, <<>>, <<>>)>>, !.token_count = <<9>>],
           [EmptyBody EXCEPT !.generation = <<"The total is 12">>,
                             !.usage = <<Usage(<<>>, <<7>>, <<5>>, <<>>)>>, !.token_count = <<9>>],
           [EmptyBody EXCEPT !.generation = <<"The total is 12">>,
                             !.usage = <<Usage(<<>>, <<>>, <<5>>, <<>>)>>],
           [EmptyBody EXCEPT !.generation = <<"The total is 12">>,
                             !.token_count = <<9>>, !.tokens_used = <<4>>],
           [EmptyBody EXCEPT !.generation = <<"The total is 12">>, !.tokens_used = <<4>>] }

\* the bodies a provider of this vendor and model may answer with
BodiesFor(vendor, model_id) ==
    CASE vendor = "openai" -> OpenAIBodies
      [] vendor = "gemini" -> GeminiBodies
      [] OTHER -> IF Contains(model_id, "anthropic") \/ Contains(model_id, "claude") THEN ClaudeBodies
                  ELSE IF Contains(model_id, "llama") THEN ConverseBodies
                  ELSE GenericBodies

ImageMissing == Env("image_error", "[Errno 2] No such file or directory: 'receipt.jpg'", EmptyBody, 0)
ConnectionReset == Env("network_error", "Connection reset by peer", EmptyBody, 1)
\* asyncio.TimeoutError(): str(e) == ""
TimedOut == Env("network_error", "", EmptyBody, 2)
ServerError == Env("http_error", "An error occurred (ThrottlingException)", EmptyBody, 1)

FailureEnvs(vendor) ==
    {ImageMissing, ConnectionReset, ServerError} \cup (IF vendor = "bedrock" THEN {} ELSE {TimedOut})

CallEnvs(vendor, model_id) ==
    FailureEnvs(vendor) \cup { Env("ok", "", b, 1) : b \in BodiesFor(vendor, model_id) }

(***************************************************************************)
(* One provider call under test: the test case is loaded, copied for its   *)
(* image and for its provider as run_test_case does, and handed to the     *)
(* call the provider name routes to.  A test case without an image is      *)
(* handed over as a text-only request: a dict with no image_path key.      *)
(***************************************************************************)
TestCase(image, schema, tools) ==
    [name |-> TestCaseName, image |-> image, schema |-> schema, tools |-> tools]

CallToolSchemas ==
    { Node(<<>>, p, <<>>, r) :
        p \in { <<>>,
                << << [name |-> "a", schema |->
                         Node(<<>>, << << [name |-> "n", schema |-> Leaf(<<FALSE>>)] >> >>, <<>>, <<>>)] >> >>,
                << << [name |-> "b", schema |-> Leaf(<<>>)], [name |-> "a", schema |-> Leaf(<<FALSE>>)] >> >> },
        r \in { <<>>, << <<"a">> >> } }

CallToolLists ==
    UNION { { [i \in 1..n |-> [name |-> ToolNames[i], schema |-> f[i]]] :
                f \in [1..n -> CallToolSchemas] } : n \in 1..MaxTools }

CallTestCases ==
    { TestCase(<<"receipt.jpg">>, <<>>, <<>>), TestCase(<<>>, <<>>, <<>>) }
    \cup { TestCase(<<"receipt.jpg">>, <<s>>, <<>>) : s \in ToolSchemas }
    \cup { TestCase(<<"receipt.jpg">>, <<>>, <<tl>>) : tl \in CallToolLists }
    \cup { TestCase(<<"receipt.jpg">>, <<Leaf(<<FALSE>>)>>, <<tl>>) : tl \in CallToolLists }

CallProviders ==
    { Provider("bedrock_claude", "anthropic.claude-3-sonnet"),
      Provider("bedrock_llama", "meta.llama4-scout"),
      Provider("bedrock_deepseek", "deepseek.r1"),
      Provider("bedrock_pixtral", "mistral.pixtral-large"),
      Provider("bedrock_nova", "amazon.nova-lite"),
      Provider("openai_gpt4o", "gpt-4o"),
      Provider("gemini_flash", "gemini-1.5-flash") }


InitCall ==
    \E t \in CallTestCases, p \in CallProviders :
        \E l \in {LoadTestCase(<<>>, t)} :
            \E h1 \in {IF t.image = <<>> THEN DictCopy(l.h, l.r)
                        ELSE ImageTestCase(l.h, l.r, t.image[1])} :
                /\ heap = ProviderTestCase(h1, Len(h1), p)
                /\ mode = "call"
                /\ pc = "call"
                /\ input = [test_case |-> t, provider |-> p]
                /\ arg = Len(h1) + 1
                /\ out = <<>>
                /\ creds = SetupClients(Secrets)
                /\ dir_images = <<>>
                /\ expanded = <<l.r>>
                /\ ti = 0 /\ ii = 0 /\ pi = 0
                /\ image_tc = Len(h1)
                /\ provider_results = <<>>
                /\ image_results = <<>>
                /\ all_results = <<>>
                /\ now = 0
                /\ calls = <<>>
                /\ sleeps = <<>>

\* the call returned c under env: the caller holds the result
ReturnFrom(vendor, env, c) ==
    /\ heap' = c.h
    /\ out' = <<[vendor |-> vendor, env |-> env, result |-> c.result, request |-> c.request]>>
    /\ now' = now + env.dur
    /\ pc' = "returned"
    /\ UNCHANGED <<mode, input, arg, creds, dir_images, expanded, ti, ii, pi, image_tc,
                   provider_results, image_results, all_results, calls, sleeps>>

BedrockCall ==
    /\ mode = "call"
    /\ pc = "call"
    /\ Route(input.provider.name, creds) = "bedrock"
    /\ \E env \in CallEnvs("bedrock", input.provider.model) :
          ReturnFrom("bedrock", env, CallBedrock(heap, arg, env, now))

OpenAICall ==
    /\ mode = "call"
    /\ pc = "call"
    /\ Route(input.provider.name, creds) = "openai"
    /\ \E env \in CallEnvs("openai", input.provider.model) :
          ReturnFrom("openai", env, CallOpenAI(heap, arg, env, now))

GeminiCall ==
    /\ mode = "call"
    /\ pc = "call"
    /\ Route(input.provider.name, creds) = "gemini"
    /\ \E env \in CallEnvs("gemini", input.provider.model) :
          ReturnFrom("gemini", env, CallGemini(heap, arg, env, now))

NextCall == BedrockCall \/ OpenAICall \/ GeminiCall

SpecCall == InitCall /\ [][NextCall]_vars

(***************************************************************************)
(* The dispatcher: run_all_tests over the expanded test cases,             *)
(* run_test_case over the images and the configured providers.             *)
(***************************************************************************)
MaxImages == 2
MaxFaultyCalls == 1

\* self.config.get('delay_between_calls', 1), self.config.get('delay_between_test_cases', 2)
DelayBetweenCalls == 1
DelayBetweenTestCases == 2

ImageNames == <<"a.jpg", "b.png", "c.webp">>

\* sorted(image_files) of the image directory
DirImageLists == { [i \in 1..n |-> ImageNames[i]] : n \in 0..MaxImages }

NestedSchema ==
    Node(<<FALSE>>, << << [name |-> "a", schema |-> Leaf(<<FALSE>>)] >> >>, <<>>, << <<"a">> >>)

NestedTools ==
    << [name |-> "t1",
        schema |-> Node(<<>>,
                        << << [name |-> "a", schema |->
                                 Node(<<>>, << << [name |-> "n", schema |-> Leaf(<<FALSE>>)] >> >>,
                                      <<>>, <<>>)] >> >>,
                        <<>>, << <<"a">> >>)],
       [name |-> "t2", schema |-> Node(<<>>, <<>>, <<>>, <<>>)] >>

SchemaTestCase == TestCase(<<"receipt.jpg">>, <<NestedSchema>>, <<>>)
ToolsTestCase == TestCase(<<>>, <<>>, <<NestedTools>>)
PlainTestCase == TestCase(<<>>, <<>>, <<>>)

RunTestCaseLists ==
    { <<SchemaTestCase>>, <<ToolsTestCase>>, <<PlainTestCase, SchemaTestCase>>,
      <<ToolsTestCase, PlainTestCase>> }

BedrockClaude == Provider("bedrock_claude", "anthropic.claude-3-sonnet")
OpenAIGpt4o == Provider("openai_gpt4o", "gpt-4o")
GeminiFlash == Provider("gemini_flash", "gemini-1.5-flash")

RunProviderLists ==
    { <<GeminiFlash, OpenAIGpt4o>>,
      <<GeminiFlash, BedrockClaude>>,
      <<BedrockClaude, OpenAIGpt4o, GeminiFlash>>,
      <<OpenAIGpt4o, Provider("azure_gpt4", "gpt-4o"), GeminiFlash>>,
      <<Provider("gemini", "gemini-1.5-flash"), Provider("openai", "gpt-4o")>>,
      <<Provider("bedrock", "amazon.nova-lite"), Provider("bedrock_nova", "amazon.nova-lite")>> }

RECURSIVE LoadTestCases(_, _, _, _)
\* the test case just loaded by l = [h, r] joins the list
LoadNextTestCase(l, tcs, i, acc) == LoadTestCases(l.h, tcs, i + 1, Append(acc, l.r))

\* self.config['test_cases']: [h |-> heap, r |-> the list of the test case dicts' addresses]
LoadTestCases(h, tcs, i, acc) ==
    IF i > Len(tcs) THEN [h |-> h, r |-> acc]
    ELSE LoadNextTestCase(LoadTestCase(h, tcs[i]), tcs, i, acc)

\* expanded_test_case = test_case.copy(); ['is_multi_image'] = ...; ['image_paths'] = ...
ExpandedTestCase(h, test_case, is_multi_image, image_paths) ==
    SetItem(SetItem(DictCopy(h, test_case), Len(h) + 1, "is_multi_image", is_multi_image),
            Len(h) + 1, "image_paths", image_paths)

\* the body of the loop of _expand_test_cases_with_images
ExpandTestCase(h, test_case, image_files) ==
    IF Has(h[test_case], "image_path") /\ h[test_case].vals["image_path"] # ""
    THEN ExpandedTestCase(h, test_case, FALSE, <<h[test_case].vals["image_path"]>>)
    ELSE IF image_files = <<>>
    THEN ExpandedTestCase(h, test_case, FALSE, <<>>)
    ELSE ExpandedTestCase(h, test_case, TRUE, image_files)

RECURSIVE ExpandTestCasesWithImages(_, _, _, _, _)
\* expanded_test_cases.append(expanded_test_case): the copy is the last object of the heap
AppendExpanded(h, test_cases, image_files, i, acc) ==
    ExpandTestCasesWithImages(h, test_cases, image_files, i + 1, Append(acc, Len(h)))

\* _expand_test_cases_with_images: [h |-> heap, r |-> expanded_test_cases]
ExpandTestCasesWithImages(h, test_cases, image_files, i, acc) ==
    IF i > Len(test_cases) THEN [h |-> h, r |-> acc]
    ELSE AppendExpanded(ExpandTestCase(h, test_cases[i], image_files), test_cases, image_files, i, acc)

\* test_case.get('image_paths', [])
ImagePaths(h, test_case) ==
    IF Has(h[test_case], "image_paths") THEN h[test_case].vals["image_paths"] ELSE <<>>

\* test_case.get('is_multi_image', False)
IsMultiImage(h, test_case) ==
    IF Has(h[test_case], "is_multi_image") THEN h[test_case].vals["is_multi_image"] ELSE FALSE

ImageResult(image_path, results) == [image_path |-> image_path, provider_results |-> results]

\* TestCaseResult(name=..., prompt=..., tools=test_case.get('tools'), image_results=..., ...)
TestCaseResult(h, test_case, results) ==
    [name |-> IF Has(h[test_case], "name") THEN h[test_case].vals["name"] ELSE "Unnamed Test Case",
     prompt |-> h[test_case].vals["prompt"],
     tools |-> IF Has(h[test_case], "tools") THEN <<DumpTools(h, h[test_case].vals["tools"])>> ELSE <<>>,
     image_results |-> results,
     is_multi_image |-> IsMultiImage(h, test_case)]

\* a variant whose loop ends at the first failed call
NextProviderUnlessFailed(p, result, n) == IF result.error # <<>> THEN n + 1 ELSE p + 1

\* for provider_config in self.config['providers']: the provider after the p-th of n
NextProvider(p, result, n) == p + 1

\* an answer the vendor's extraction accepts
GoodBody(vendor, model_id) ==
    CASE vendor = "openai" -> ChatBody("The total is 12")
      [] vendor = "gemini" -> GeminiBody(<< <<"{\"total\": 12}">> >>)
      [] OTHER -> IF Contains(model_id, "anthropic") \/ Contains(model_id, "claude")
                  THEN ClaudeBody(<<TextBlock("The total is 12")>>)
                  ELSE IF Contains(model_id, "llama")
                  THEN ConverseBody(<<Entry(<<>>, <<"The total is 12">>)>>)
                  ELSE [EmptyBody EXCEPT !.generation = <<"The total is 12">>]

\* the number of failed calls so far
Faulty(cs) == Cardinality({ k \in 1..Len(cs) : cs[k].failed })

\* what the world may do to the next call of a run
RunEnvs(vendor, model_id, cs) ==
    { Env("ok", "", GoodBody(vendor, model_id), 1) }
    \cup (IF Faulty(cs) < MaxFaultyCalls THEN {ImageMissing, ConnectionReset} ELSE {})

InitRun ==
    \E tcs \in RunTestCaseLists, ps \in RunProviderLists, present \in SUBSET Secrets,
       images \in DirImageLists :
        \E l \in {LoadTestCases(<<>>, tcs, 1, <<>>)} :
            /\ heap = l.h
            /\ mode = "run"
            /\ pc = "start"
            /\ input = [test_cases |-> tcs, providers |-> ps]
            /\ arg = l.r
            /\ out = <<>>
            /\ creds = SetupClients(present)
            /\ dir_images = images
            /\ expanded = <<>>
            /\ ti = 0 /\ ii = 0 /\ pi = 0
            /\ image_tc = 0
            /\ provider_results = <<>>
            /\ image_results = <<>>
            /\ all_results = <<>>
            /\ now = 0
            /\ calls = <<>>
            /\ sleeps = <<>>

\* expanded_test_cases = self._expand_test_cases_with_images(self.config['test_cases'])
ExpandTestCases ==
    /\ mode = "run"
    /\ pc = "start"
    /\ \E e \in {ExpandTestCasesWithImages(heap, arg, dir_images, 1, <<>>)} :
          /\ heap' = e.h
          /\ expanded' = e.r
    /\ ti' = 1
    /\ pc' = "test_case"
    /\ UNCHANGED <<mode, input, arg, out, creds, dir_images, ii, pi, image_tc, provider_results,
                   image_results, all_results, now, calls, sleeps>>

\* run_all_tests enters run_test_case: image_results = []
BeginTestCase ==
    /\ mode = "run"
    /\ pc = "test_case"
    /\ ti <= Len(expanded)
    /\ image_results' = <<>>
    /\ ii' = 1
    /\ pc' = "image"
    /\ UNCHANGED <<heap, mode, input, arg, out, creds, dir_images, expanded, ti, pi, image_tc,
                   provider_results, all_results, now, calls, sleeps>>

\* for image_path in ...: provider_results = []; image_test_case = test_case.copy(); ...
BeginImage ==
    /\ mode = "run"
    /\ pc = "image"
    /\ ii <= Len(ImagePaths(heap, expanded[ti]))
    /\ heap' = ImageTestCase(heap, expanded[ti], ImagePaths(heap, expanded[ti])[ii])
    /\ image_tc' = Len(heap) + 1
    /\ provider_results' = <<>>
    /\ pi' = 1
    /\ pc' = "provider"
    /\ UNCHANGED <<mode, input, arg, out, creds, dir_images, expanded, ti, ii, image_results,
                   all_results, now, calls, sleeps>>

\* a variant that puts the newest result first
PrependResult(results, result) == <<result>> \o results

\* provider_results.append(result)
AppendResult(results, result) == Append(results, result)

\* a variant that schedules the call and goes on without awaiting its result
ResumedWithoutAwaiting(start_time, dur, delay) == start_time + delay

\* result = await self._call_...(...); await asyncio.sleep(delay): the time the loop goes on
Resumed(start_time, dur, delay) == start_time + dur + delay

\* provider_results.append(result); await asyncio.sleep(delay_between_calls)
Record(vendor, env, c, seen) ==
    /\ heap' = c.h
    /\ provider_results' = AppendResult(provider_results, c.result)
    /\ calls' = Append(calls, [ti |-> ti, ii |-> ii, pi |-> pi, vendor |-> vendor,
                               provider |-> input.providers[pi].name,
                               seen |-> seen, failed |-> c.result.error # <<>>,
                               start_time |-> now, end_time |-> now + env.dur])
    /\ sleeps' = Append(sleeps, [after |-> "call", seconds |-> DelayBetweenCalls])
    /\ now' = Resumed(now, env.dur, DelayBetweenCalls)
    /\ pi' = NextProvider(pi, c.result, Len(input.providers))
    /\ UNCHANGED <<mode, pc, input, arg, out, creds, dir_images, expanded, ti, ii, image_tc,
                   image_results, all_results>>

\* the provider's copy of the test case is made, the call routed to it returns
RunBedrock ==
    /\ mode = "run"
    /\ pc = "provider"
    /\ pi <= Len(input.providers)
    /\ Route(input.providers[pi].name, creds) = "bedrock"
    /\ \E h \in {ProviderTestCase(heap, image_tc, input.providers[pi])} :
       \E env \in RunEnvs("bedrock", input.providers[pi].model, calls) :
          Record("bedrock", env, CallBedrock(h, Len(h), env, now), DumpStructure(h, Len(h)))

RunOpenAI ==
    /\ mode = "run"
    /\ pc = "provider"
    /\ pi <= Len(input.providers)
    /\ Route(input.providers[pi].name, creds) = "openai"
    /\ \E h \in {ProviderTestCase(heap, image_tc, input.providers[pi])} :
       \E env \in RunEnvs("openai", input.providers[pi].model, calls) :
          Record("openai", env, CallOpenAI(h, Len(h), env, now), DumpStructure(h, Len(h)))

RunGemini ==
    /\ mode = "run"
    /\ pc = "provider"
    /\ pi <= Len(input.providers)
    /\ Route(input.providers[pi].name, creds) = "gemini"
    /\ \E h \in {ProviderTestCase(heap, image_tc, input.providers[pi])} :
       \E env \in RunEnvs("gemini", input.providers[pi].model, calls) :
          Record("gemini", env, CallGemini(h, Len(h), env, now), DumpStructure(h, Len(h)))

\* else: logger.warning(...); continue
SkipProvider ==
    /\ mode = "run"
    /\ pc = "provider"
    /\ pi <= Len(input.providers)
    /\ Route(input.providers[pi].name, creds) = "skip"
    /\ heap' = ProviderTestCase(heap, image_tc, input.providers[pi])
    /\ pi' = pi + 1
    /\ UNCHANGED <<mode, pc, input, arg, out, creds, dir_images, expanded, ti, ii, image_tc,
                   provider_results, image_results, all_results, now, calls, sleeps>>

\* image_results.append(ImageResult(...)); the delay between the images of a multi-image case
EndImage ==
    /\ mode = "run"
    /\ pc = "provider"
    /\ pi > Len(input.providers)
    /\ image_results' = Append(image_results,
                               ImageResult(ImagePaths(heap, expanded[ti])[ii], provider_results))
    /\ IF IsMultiImage(heap, expanded[ti]) /\ Len(ImagePaths(heap, expanded[ti])) > 1
       THEN /\ sleeps' = Append(sleeps, [after |-> "image", seconds |-> DelayBetweenCalls])
            /\ now' = now + DelayBetweenCalls
       ELSE UNCHANGED <<sleeps, now>>
    /\ ii' = ii + 1
    /\ pc' = "image"
    /\ UNCHANGED <<heap, mode, input, arg, out, creds, dir_images, expanded, ti, pi, image_tc,
                   provider_results, all_results, calls>>

\* a variant that sleeps after the last test case too
SleepsAfterEveryTestCase(i, n) == i <= n

\* if i < len(expanded_test_cases) - 1, for the i-th of n test cases counted from 1
SleepsAfterTestCase(i, n) == i < n

\* return TestCaseResult(...); all_test_case_results.append(...); the delay between test cases
EndTestCase ==
    /\ mode = "run"
    /\ pc = "image"
    /\ ii > Len(ImagePaths(heap, expanded[ti]))
    /\ all_results' = Append(all_results, TestCaseResult(heap, expanded[ti], image_results))
    /\ IF SleepsAfterTestCase(ti, Len(expanded))
       THEN /\ sleeps' = Append(sleeps, [after |-> "test_case", seconds |-> DelayBetweenTestCases])
            /\ now' = now + DelayBetweenTestCases
       ELSE UNCHANGED <<sleeps, now>>
    /\ ti' = ti + 1
    /\ pc' = "test_case"
    /\ UNCHANGED <<heap, mode, input, arg, out, creds, dir_images, expanded, ii, pi, image_tc,
                   provider_results, image_results, calls>>

\* return all_test_case_results
ReturnResults ==
    /\ mode = "run"
    /\ pc = "test_case"
    /\ ti > Len(expanded)
    /\ pc' = "done"
    /\ UNCHANGED <<heap, mode, input, arg, out, dvars>>

Next ==
    \/ ExpandTestCases
    \/ BeginTestCase
    \/ BeginImage
    \/ RunBedrock
    \/ RunOpenAI
    \/ RunGemini
    \/ SkipProvider
    \/ EndImage
    \/ EndTestCase
    \/ ReturnResults

Spec == InitRun /\ [][Next]_vars

(***************************************************************************)
(* Helpers of the properties below, on schema values.                      *)
(***************************************************************************)
RECURSIVE HasAPAnywhere(_)
HasAPAnywhere(s) ==
    \/ s.ap # <<>>
    \/ s.props # <<>> /\ \E i \in 1..Len(s.props[1]) : HasAPAnywhere(s.props[1][i].schema)
    \/ s.items # <<>> /\ HasAPAnywhere(s.items[1])

HasNestedAP(s) ==
    \/ s.props # <<>> /\ \E i \in 1..Len(s.props[1]) : HasAPAnywhere(s.props[1][i].schema)
    \/ s.items # <<>> /\ HasAPAnywhere(s.items[1])

PropNamesOf(s) == IF s.props = <<>> THEN {} ELSE { s.props[1][i].name : i \in 1..Len(s.props[1]) }

RequiredOf(s) == IF s.req = <<>> THEN {} ELSE { s.req[1][i] : i \in 1..Len(s.req[1]) }

DeclaredNames(s) == IF s.props = <<>> THEN <<>> ELSE [i \in 1..Len(s.props[1]) |-> s.props[1][i].name]

RequiredList(s) == IF s.req = <<>> THEN <<>> ELSE s.req[1]

\* the enum of the item_type property of an envelope
ItemTypeEnum(s) ==
    LET P == s.props[1]
    IN  P[CHOOSE i \in 1..Len(P) : P[i].name = "item_type"].schema.enum

ToolNamesOf(tools) == [i \in 1..Len(tools) |-> tools[i].name]

\* what the configuration says about the structured output of a test case
Configured(t) == [schema |-> t.schema, tools |-> t.tools]

\* the p-th configured provider is called
Routed(p) == Route(input.providers[p].name, creds) # "skip"

\* the calls made for test case t, image i (and provider p)
CallsOfImage(t, i) == { k \in 1..Len(calls) : calls[k].ti = t /\ calls[k].ii = i }
CallsOf(t, i, p) == { k \in CallsOfImage(t, i) : calls[k].pi = p }

(***************************************************************************)
(* C1: every provider call of a run receives the schema and the tools the  *)
(* configuration holds, and the TestCaseResult carries the configured      *)
(* tools: no earlier call changes what a later call, a later image or the  *)
(* result sees.                                                            *)
(***************************************************************************)
C1_CallsSeeConfiguration ==
    /\ \A k \in 1..Len(calls) : calls[k].seen = Configured(input.test_cases[calls[k].ti])
    /\ \A r \in 1..Len(all_results) : all_results[r].tools = input.test_cases[r].tools

(***************************************************************************)
(* C2: Strip-unsupported never mutates its input: after any number of      *)
(* calls the caller's schema has the value it had when it was loaded,      *)
(* at every depth.                                                         *)
(***************************************************************************)
C2_InputNeverMutated == Dump(heap, arg) = input

(***************************************************************************)
(* C3: the schema Strip-unsupported returns holds no additionalProperties  *)
(* key at any depth reachable through properties and items.                *)
(***************************************************************************)
C3_NoAdditionalPropertiesLeft == \A i \in 1..Len(out) : ~HasAPAnywhere(out[i].v)

C3_Witness == Len(out) >= 1 /\ input.ap # <<>> /\ HasNestedAP(input)

(***************************************************************************)
(* C4: Strip-unsupported is idempotent: the value returned by the second   *)
(* application (to the first one's result) equals the first one's result.  *)
(***************************************************************************)
C4_Idempotent == Len(out) = 2 => out[2].v = out[1].v

C4_Witness == Len(out) = 2 /\ HasNestedAP(input) /\ input.ap # <<>>

(***************************************************************************)
(* C5: the envelope of Union-of-tools requires item_type and every field   *)
(* any tool requires, and has every property name of every tool.           *)
(***************************************************************************)
C5_UnionCoversTools ==
    \A k \in 1..Len(out) :
        /\ "item_type" \in RequiredOf(out[k].v)
        /\ \A t \in 1..Len(input) :
              /\ RequiredOf(input[t].schema) \subseteq RequiredOf(out[k].v)
              /\ PropNamesOf(input[t].schema) \subseteq PropNamesOf(out[k].v)


(***************************************************************************)
(* C6: on the OpenAI single-schema path the schema sent has as required    *)
(* list exactly the declared property names of the configured schema S, in *)
(* declaration order (none when S declares none), and S itself keeps the   *)
(* required list it was configured with.                                   *)
(***************************************************************************)
C6_StrictRequired ==
    \A k \in 1..Len(out) :
        (out[k].vendor = "openai" /\ out[k].request # <<>> /\ out[k].request[1].response_format # <<>>)
        => /\ RequiredList(out[k].request[1].response_format[1].schema)
                = DeclaredNames(input.test_case.schema[1])
           /\ Dump(heap, heap[arg].vals["schema"]).req = input.test_case.schema[1].req

(***************************************************************************)
(* C7: a Gemini request for a test case with tools or a schema has         *)
(* responseMimeType "application/json" and a responseSchema; with tools    *)
(* the enum of item_type is the tool names in list order; with neither     *)
(* tools nor schema the request has no responseMimeType, no responseSchema.*)
(***************************************************************************)
C7_GeminiStructuredRequest ==
    \A k \in 1..Len(out) :
        (out[k].vendor = "gemini" /\ out[k].request # <<>>)
        => LET cfg == out[k].request[1].generationConfig
               t   == input.test_case
           IN  IF t.tools # <<>>
               THEN /\ cfg.responseMimeType = <<"application/json">>
                    /\ cfg.responseSchema # <<>>
                    /\ ItemTypeEnum(cfg.responseSchema[1]) = <<ToolNamesOf(t.tools[1])>>
               ELSE IF t.schema # <<>>
               THEN /\ cfg.responseMimeType = <<"application/json">>
                    /\ cfg.responseSchema # <<>>
               ELSE /\ cfg.responseMimeType = <<>>
                    /\ cfg.responseSchema = <<>>

C7_Witness ==
    /\ mode = "call"
    /\ Len(out) = 1
    /\ out[1].vendor = "gemini"
    /\ out[1].request # <<>>
    /\ input.test_case.tools # <<>>
    /\ Len(input.test_case.tools[1]) >= 2
    /\ out[1].request[1].generationConfig.responseMimeType = <<"application/json">>

(***************************************************************************)
(* C8: whatever goes wrong in a provider call (image loading, the network  *)
(* call, a status other than 200, the extraction) the call returns a result*)
(* with an empty response, a non-empty error string and a latency >= 0.    *)
(***************************************************************************)
C8_FailuresBecomeErrorResults ==
    \A k \in 1..Len(out) :
        /\ out[k].env.kind # "ok" => out[k].result.error # <<>>
        /\ out[k].result.error # <<>>
           => /\ out[k].result.response = ""
              /\ out[k].result.error[1] # ""
              /\ out[k].result.latency_ms >= 0

(***************************************************************************)
(* C9: every result a provider call returns has exactly one of a non-empty *)
(* response and a non-empty error, and a set error comes with an empty     *)
(* response.                                                               *)
(***************************************************************************)
C9_ExactlyOneOfResponseAndError ==
    \A k \in 1..Len(out) :
        /\ (out[k].result.response # "")
               # (out[k].result.error # <<>> /\ out[k].result.error # <<"">>)
        /\ out[k].result.error # <<>> => out[k].result.response = ""

(***************************************************************************)
(* C10: no provider is called twice for the same test case and image, and  *)
(* when the run has returned every configured provider that routes to a    *)
(* family with its credentials present was called exactly once for each    *)
(* image of each test case, every other provider never, each call left one *)
(* result and each failed call one error result: a failure neither stops   *)
(* the iteration nor is retried.                                           *)
(***************************************************************************)
C10_EveryRoutedProviderCalledOnce ==
    /\ \A k1, k2 \in 1..Len(calls) :
          (calls[k1].ti = calls[k2].ti /\ calls[k1].ii = calls[k2].ii /\ calls[k1].pi = calls[k2].pi)
          => k1 = k2
    /\ pc = "done"
       => /\ Len(all_results) = Len(expanded)
          /\ \A t \in 1..Len(expanded) :
                /\ Len(all_results[t].image_results) = Len(ImagePaths(heap, expanded[t]))
                /\ \A i \in 1..Len(ImagePaths(heap, expanded[t])) :
                      LET results == all_results[t].image_results[i].provider_results
                      IN  /\ \A p \in 1..Len(input.providers) :
                                Cardinality(CallsOf(t, i, p)) = IF Routed(p) THEN 1 ELSE 0
                          /\ Len(results) = Cardinality({ p \in 1..Len(input.providers) : Routed(p) })
                          /\ Cardinality({ r \in 1..Len(results) : results[r].error # <<>> })
                                = Cardinality({ k \in CallsOfImage(t, i) : calls[k].failed })

C10_Witness ==
    /\ pc = "done"
    /\ \E k1, k2 \in 1..Len(calls) :
          /\ k1 < k2
          /\ calls[k1].failed
          /\ calls[k1].ti = calls[k2].ti
          /\ calls[k1].ii = calls[k2].ii
    /\ \E k1, k2 \in 1..Len(calls) : calls[k1].failed /\ calls[k1].ti < calls[k2].ti

(***************************************************************************)
(* Helpers of the properties of the order of a run.                        *)
(***************************************************************************)
\* the label and the model a result of the configured provider p carries: the Bedrock
\* call labels its result with the provider's name, the other two with their family
LabelOf(p) ==
    [provider |-> IF Route(p.name, creds) = "bedrock" THEN p.name ELSE Route(p.name, creds),
     model |-> p.model]

\* the labels of the providers among the first n configured that are called
RoutedLabels(n) ==
    LET IsRouted(p) == Route(p.name, creds) # "skip"
        s == SelectSeq(SubSeq(input.providers, 1, n), IsRouted)
    IN  [i \in 1..Len(s) |-> LabelOf(s[i])]

ProvidersOf(results) ==
    [r \in 1..Len(results) |-> [provider |-> results[r].provider, model |-> results[r].model]]

ImagePathsOf(results) == [i \in 1..Len(results) |-> results[i].image_path]

\* the images the configuration and the image directory give test case t
ConfiguredImagePaths(t) ==
    IF input.test_cases[t].image # <<>> THEN input.test_cases[t].image ELSE dir_images

\* call k1 is for an earlier test case, image or provider than call k2
Before(k1, k2) ==
    \/ calls[k1].ti < calls[k2].ti
    \/ calls[k1].ti = calls[k2].ti /\ calls[k1].ii < calls[k2].ii
    \/ calls[k1].ti = calls[k2].ti /\ calls[k1].ii = calls[k2].ii /\ calls[k1].pi < calls[k2].pi

(***************************************************************************)
(* C11: the calls of a run are made in the order of the configuration      *)
(* (test case, then image, then provider); the provider_results of every   *)
(* ImageResult name exactly the non-skipped providers in the order of      *)
(* config['providers'], one result each; and the run returns one           *)
(* TestCaseResult per configured test case, in configuration order.        *)
(***************************************************************************)
C11_ConfigurationOrder ==
    /\ \A k1, k2 \in 1..Len(calls) : k1 < k2 => Before(k1, k2)
    /\ pc = "provider" => ProvidersOf(provider_results) = RoutedLabels(pi - 1)
    /\ \A i \in 1..Len(image_results) :
          ProvidersOf(image_results[i].provider_results) = RoutedLabels(Len(input.providers))
    /\ Len(all_results) <= Len(input.test_cases)
    /\ pc = "done" => Len(all_results) = Len(input.test_cases)
    /\ \A t \in 1..Len(all_results) :
          /\ all_results[t].name = input.test_cases[t].name
          /\ (all_results[t].tools # <<>>) = (input.test_cases[t].tools # <<>>)
          /\ ImagePathsOf(all_results[t].image_results) = ConfiguredImagePaths(t)
          /\ \A i \in 1..Len(all_results[t].image_results) :
                ProvidersOf(all_results[t].image_results[i].provider_results)
                    = RoutedLabels(Len(input.providers))

C11_Witness ==
    /\ pc = "done"
    /\ Len(all_results) = 2
    /\ all_results[1].tools # all_results[2].tools
    /\ Len(all_results[1].image_results) = 2
    /\ Len(input.providers) = 3
    /\ ~Routed(2)
    /\ Len(all_results[1].image_results[2].provider_results) = 2

\* the configured provider p names a family whose credentials were not supplied
CredentialsMissing(p) ==
    \/ StartsWith(p.name, "bedrock_") /\ ~creds.bedrock_client
    \/ (StartsWith(p.name, "openai_") \/ p.name = "openai") /\ ~creds.openai_headers
    \/ (StartsWith(p.name, "gemini_") \/ p.name = "gemini") /\ ~creds.gemini_headers

\* the providers among the first n configured whose credentials are missing
Unsupplied(n) == { p \in 1..n : CredentialsMissing(input.providers[p]) }

DelaysAfter(what) == Cardinality({ s \in 1..Len(sleeps) : sleeps[s].after = what })

(***************************************************************************)
(* C12: a configured provider whose credentials were not supplied is       *)
(* skipped: no call is ever made for it, it leaves no result (the results  *)
(* of the image in progress are as many as the providers before the        *)
(* current one that are not skipped), no delay between calls is taken for  *)
(* it (there are as many such delays as calls), and the providers after    *)
(* it are still called.                                                    *)
(***************************************************************************)
C12_MissingCredentialsSkip ==
    /\ \A k \in 1..Len(calls) : ~CredentialsMissing(input.providers[calls[k].pi])
    /\ DelaysAfter("call") = Len(calls)
    /\ pc = "provider"
       => /\ Len(provider_results) = (pi - 1) - Cardinality({ p \in 1..(pi - 1) : ~Routed(p) })
          /\ Len(provider_results) <= (pi - 1) - Cardinality(Unsupplied(pi - 1))
          /\ Cardinality(CallsOfImage(ti, ii)) = Len(provider_results)
    /\ \A i \in 1..Len(image_results) :
          Len(image_results[i].provider_results)
              = Cardinality({ p \in 1..Len(input.providers) : Routed(p) })
    /\ pc = "done"
       => \A t \in 1..Len(expanded) : \A i \in 1..Len(ImagePaths(heap, expanded[t])) :
             \A p \in 1..Len(input.providers) :
                IF CredentialsMissing(input.providers[p]) THEN CallsOf(t, i, p) = {}
                ELSE Routed(p) => CallsOf(t, i, p) # {}

C12_Witness ==
    /\ pc = "done"
    /\ Len(input.providers) = 3
    /\ CredentialsMissing(input.providers[2])
    /\ \E k1, k2 \in 1..Len(calls) :
          /\ calls[k1].ti = calls[k2].ti /\ calls[k1].ii = calls[k2].ii
          /\ calls[k1].pi = 1 /\ calls[k2].pi = 3
    /\ Len(all_results[1].image_results) >= 1
    /\ Len(all_results[1].image_results[1].provider_results) = 2

\* every delay taken so far has the configured length of its kind
FixedDelays ==
    \A s \in 1..Len(sleeps) :
        sleeps[s].seconds = IF sleeps[s].after = "test_case" THEN DelayBetweenTestCases
                            ELSE DelayBetweenCalls

\* the delay between calls follows every call: a call returned, one more delay was taken,
\* and the next call starts no earlier than that delay after the return
DelayAfterEveryCall ==
    /\ DelaysAfter("call") = Len(calls)
    /\ \A k \in 1..Len(calls) :
          IF k < Len(calls) THEN calls[k + 1].start_time >= calls[k].end_time + DelayBetweenCalls
          ELSE now >= calls[k].end_time + DelayBetweenCalls

(***************************************************************************)
(* C13 as stated: delay_between_calls follows every provider call, failed  *)
(* or not, before the next call starts, and delay_between_test_cases       *)
(* follows every completed test case, the last one of the run included.    *)
(***************************************************************************)
C13_DelayAfterEveryTestCase ==
    /\ FixedDelays
    /\ DelayAfterEveryCall
    /\ DelaysAfter("test_case") = Len(all_results)

(***************************************************************************)
(* C13 amended: delay_between_calls follows every provider call, failed or *)
(* not, before the next call starts, and delay_between_test_cases follows  *)
(* every completed test case except the last one of the run: a call for a  *)
(* later test case starts at least that much later, and a finished run of  *)
(* n test cases has taken n - 1 such delays.                               *)
(***************************************************************************)
C13_DelayBetweenTestCases ==
    /\ FixedDelays
    /\ DelayAfterEveryCall
    /\ DelaysAfter("test_case")
          = IF Len(all_results) < Len(expanded) \/ expanded = <<>> THEN Len(all_results)
            ELSE Len(expanded) - 1
    /\ \A k \in 1..(Len(calls) - 1) :
          calls[k + 1].start_time
              >= calls[k].end_time + DelayBetweenCalls
                 + DelayBetweenTestCases * (calls[k + 1].ti - calls[k].ti)

C13_Witness ==
    /\ pc = "done"
    /\ Len(all_results) = 2
    /\ DelaysAfter("test_case") = 1
    /\ \E k \in 1..(Len(calls) - 1) : calls[k].failed /\ calls[k + 1].ti > calls[k].ti

\* the number of configured providers that are called
RoutedCount == Cardinality({ p \in 1..Len(input.providers) : Routed(p) })

\* the calls made for test case t
CallsOfTestCase(t) == { k \in 1..Len(calls) : calls[k].ti = t }

\* the test case t of a finished run was expanded into one sub-run per image of the directory
ExpandedPerImage(t) ==
    /\ ImagePathsOf(all_results[t].image_results) = dir_images
    /\ \A i \in 1..Len(dir_images) :
          /\ Len(all_results[t].image_results[i].provider_results) = RoutedCount
          /\ \A p \in 1..Len(input.providers) :
                Cardinality(CallsOf(t, i, p)) = IF Routed(p) THEN 1 ELSE 0

\* the test case t of a finished run was executed once with no image
ExecutedOnceWithoutImage(t) ==
    /\ Cardinality(CallsOfTestCase(t)) = RoutedCount
    /\ Len(all_results[t].image_results) = 1
    /\ Len(all_results[t].image_results[1].provider_results) = RoutedCount

(***************************************************************************)
(* C14: in a finished run, a test case without an explicit image has one   *)
(* sub-run per image of the image directory, every credentialed provider   *)
(* called once in each; when the directory has no image the test case was  *)
(* still executed once, without image: every credentialed provider was     *)
(* called once for it and its TestCaseResult carries those results.        *)
(***************************************************************************)
C14_ExpandedOrExecutedOnce ==
    pc = "done"
    => \A t \in 1..Len(input.test_cases) :
          input.test_cases[t].image = <<>>
          => IF dir_images # <<>> THEN ExpandedPerImage(t) ELSE ExecutedOnceWithoutImage(t)

\* the calls in flight at time t: started, not yet returned
InFlight(t) == { k \in 1..Len(calls) : calls[k].start_time <= t /\ t < calls[k].end_time }

RECURSIVE ResultCount(_)
\* the number of provider results held by a list of ImageResults
ResultCount(irs) ==
    IF irs = <<>> THEN 0 ELSE Len(irs[1].provider_results) + ResultCount(Tail(irs))

RECURSIVE ReturnedCount(_)
\* the number of provider results held by a list of TestCaseResults
ReturnedCount(trs) ==
    IF trs = <<>> THEN 0 ELSE ResultCount(trs[1].image_results) + ReturnedCount(Tail(trs))

\* the results the run holds: of finished test cases, of finished images of the current
\* test case, and of the image in progress
ResultsHeld ==
    ReturnedCount(all_results)
    + (IF pc \in {"image", "provider"} THEN ResultCount(image_results) ELSE 0)
    + (IF pc = "provider" THEN Len(provider_results) ELSE 0)

(***************************************************************************)
(* C15: the calls of a run are strictly sequential: at no time is more     *)
(* than one call in flight, every call made has returned its result before *)
(* the run goes on (the run holds one result per call made), and a later   *)
(* call (next provider, next image or next test case) starts no earlier    *)
(* than the return of every earlier call plus the delay after it.          *)
(***************************************************************************)
C15_StrictlySequential ==
    /\ \A t \in 0..now : Cardinality(InFlight(t)) <= 1
    /\ ResultsHeld = Len(calls)
    /\ \A k1, k2 \in 1..Len(calls) :
          k1 < k2
          => /\ Before(k1, k2)
             /\ calls[k1].start_time <= calls[k1].end_time
             /\ calls[k1].end_time + DelayBetweenCalls <= calls[k2].start_time

C15_Witness ==
    /\ pc = "done"
    /\ Len(calls) >= 4
    /\ \E k \in 1..(Len(calls) - 1) : calls[k].ii < calls[k + 1].ii /\ calls[k].ti = calls[k + 1].ti
    /\ \E k \in 1..(Len(calls) - 1) : calls[k].ti < calls[k + 1].ti
    /\ \E k \in 1..(Len(calls) - 1) : calls[k].pi < calls[k + 1].pi /\ calls[k].failed
    /\ \E k \in 1..(Len(calls) - 1) : calls[k].end_time > calls[k].start_time

(***************************************************************************)
(* Helpers of the properties of the extraction of the other AWS models.    *)
(***************************************************************************)
\* call k went to a model of the generic extraction and its body was parsed
GenericCall(k) ==
    /\ out[k].vendor = "bedrock"
    /\ out[k].request # <<>>
    /\ out[k].env.kind = "ok"
    /\ ~Contains(input.provider.model, "anthropic")
    /\ ~Contains(input.provider.model, "claude")
    /\ ~(Contains(input.provider.model, "llama") /\ input.test_case.image # <<>>)

\* the first entry of choices has a message with this content and these tool calls
FirstMessage(body) == body.choices[1][1].message[1]

(***************************************************************************)
(* C16: when the body of a generic AWS response has both a choices and a   *)
(* generation key, the response text is never the generation value: it is  *)
(* the arguments of the first tool call of choices[0].message when there   *)
(* are tool calls, else the content of that message.                       *)
(***************************************************************************)
C16_ChoicesBeforeGeneration ==
    \A k \in 1..Len(out) :
        (GenericCall(k) /\ out[k].env.body.choices # <<>> /\ out[k].env.body.generation # <<>>)
        => /\ out[k].result.error = <<>>
           /\ out[k].result.response # out[k].env.body.generation[1]
           /\ (out[k].env.body.choices[1] # <<>> /\ out[k].env.body.choices[1][1].message # <<>>)
              => IF FirstMessage(out[k].env.body).tool_calls # <<>>
                 THEN out[k].result.response
                         = FirstMessage(out[k].env.body).tool_calls[1][1].arguments[1]
                 ELSE out[k].result.response = FirstMessage(out[k].env.body).content[1]

C16_Witness ==
    /\ Len(out) = 1
    /\ GenericCall(1)
    /\ out[1].env.body.choices # <<>>
    /\ out[1].env.body.generation = <<"from generation">>
    /\ out[1].result.response = "from choices"

\* call k went to an AWS-Claude model with tools or a schema and its body has a content list
ClaudeToolCall(k) ==
    /\ out[k].vendor = "bedrock"
    /\ out[k].env.kind = "ok"
    /\ Contains(input.provider.model, "anthropic") \/ Contains(input.provider.model, "claude")
    /\ input.test_case.tools # <<>> \/ input.test_case.schema # <<>>
    /\ out[k].env.body.content # <<>>

\* the positions of the tool_use blocks of a content list
ToolUses(blocks) == { i \in 1..Len(blocks) : blocks[i].type = "tool_use" }

(***************************************************************************)
(* C17: for an AWS-Claude call with tools or a schema, when the content    *)
(* list of the response has a tool_use block at any position the response  *)
(* text is the JSON serialization of the input of the first such block,    *)
(* whatever text blocks come before it; with no tool_use block it is the   *)
(* text of the first block.                                                *)
(***************************************************************************)
C17_ToolUseBeforeText ==
    \A k \in 1..Len(out) :
        ClaudeToolCall(k)
        => LET blocks == out[k].env.body.content[1]
           IN  IF ToolUses(blocks) # {}
               THEN /\ out[k].result.error = <<>>
                    /\ \E i \in ToolUses(blocks) :
                          /\ \A j \in ToolUses(blocks) : i <= j
                          /\ out[k].result.response = JsonDumps(blocks[i].input[1])
               ELSE blocks # <<>> => out[k].result.response = blocks[1].text[1]

C17_Witness ==
    /\ Len(out) = 1
    /\ ClaudeToolCall(1)
    /\ Len(out[1].env.body.content[1]) = 4
    /\ out[1].env.body.content[1][1].type = "text"
    /\ out[1].result.response = "{}"

\* none of the shapes the generic extraction knows is in the body
NoShapeMatches(body) ==
    /\ ~(body.choices # <<>> /\ body.choices[1] # <<>> /\ body.choices[1][1].message # <<>>)
    /\ body.generation = <<>>
    /\ body.generated_text = <<>>
    /\ ~(body.outputs # <<>> /\ body.outputs[1] # <<>>)
    /\ body.text = <<>>
    /\ body.response = <<>>
    /\ ~(body.isList /\ body.list # <<>>)

(***************************************************************************)
(* C18: the generic extraction of a parsed body never raises, and when     *)
(* none of its shapes matches (choices == [] and outputs == [] included)   *)
(* the response text is the UNKNOWN_FORMAT diagnostic with the serialized  *)
(* payload, never the empty string.                                        *)
(***************************************************************************)
C18_UnknownFormatDiagnostic ==
    \A k \in 1..Len(out) :
        GenericCall(k)
        => /\ out[k].result.error = <<>>
           /\ NoShapeMatches(out[k].env.body)
              => /\ out[k].result.response = "UNKNOWN_FORMAT: {...}"
                 /\ out[k].result.response # ""

\* the first value there is, in the order usage.total_tokens, usage.output_tokens,
\* usage.completion_tokens, token_count, tokens_used, else 0
FirstTokenCount(body) ==
    IF body.usage # <<>> /\ body.usage[1].total_tokens # <<>> THEN body.usage[1].total_tokens[1]
    ELSE IF body.usage # <<>> /\ body.usage[1].output_tokens # <<>> THEN body.usage[1].output_tokens[1]
    ELSE IF body.usage # <<>> /\ body.usage[1].completion_tokens # <<>>
    THEN body.usage[1].completion_tokens[1]
    ELSE IF body.token_count # <<>> THEN body.token_count[1]
    ELSE IF body.tokens_used # <<>> THEN body.tokens_used[1]
    ELSE 0

\* the body has a usage object that carries none of the three usage fields
EmptyUsage(body) ==
    /\ body.usage # <<>>
    /\ body.usage[1].total_tokens = <<>>
    /\ body.usage[1].output_tokens = <<>>
    /\ body.usage[1].completion_tokens = <<>>

(***************************************************************************)
(* C19: the token count of a generic AWS result is the first value there   *)
(* is in the order usage.total_tokens, usage.output_tokens,                *)
(* usage.completion_tokens, token_count, tokens_used, else 0; a body whose *)
(* usage has none of the three fields and that has a top-level token_count *)
(* yields that token_count.                                                *)
(***************************************************************************)
C19_TokenCountPriority ==
    \A k \in 1..Len(out) :
        (GenericCall(k) /\ ~out[k].env.body.isList)
        => out[k].result.tokens_used = <<FirstTokenCount(out[k].env.body)>>

\* call k went to an AWS-Llama model and the vendor would answer it
LlamaCall(k) ==
    /\ out[k].vendor = "bedrock"
    /\ Contains(input.provider.model, "llama")
    /\ out[k].env.kind = "ok"

(***************************************************************************)
(* C20: an AWS-Llama request with an image goes to the converse call; a    *)
(* text-only one (test case without an image) goes to the invocation call  *)
(* with the body {prompt, max_gen_len, temperature} and yields a result    *)
(* without error.                                                          *)
(***************************************************************************)
C20_LlamaTextOnlyInvokes ==
    \A k \in 1..Len(out) :
        LlamaCall(k)
        => IF input.test_case.image # <<>>
           THEN out[k].request # <<>> /\ out[k].request[1].api = "converse"
           ELSE /\ out[k].request # <<>>
                /\ out[k].request[1].api = "invoke_model"
                /\ out[k].request[1].format = "prompt_max_gen_len"
                /\ out[k].result.error = <<>>

\* call k went to an AWS-Claude model and built a request
ClaudeRequest(k) ==
    /\ out[k].vendor = "bedrock"
    /\ Contains(input.provider.model, "anthropic") \/ Contains(input.provider.model, "claude")
    /\ out[k].request # <<>>

(***************************************************************************)
(* C21: the request of an AWS-Claude call offers exactly the tools of the  *)
(* test case (same names and schemas, same order) with tool_choice         *)
(* {type: auto} when the test case has tools; exactly one synthetic tool   *)
(* over the test case's schema, with tool_choice {type: tool, name: the    *)
(* name of that tool}, when it has a schema only; and neither tools nor    *)
(* tool_choice when it has neither.                                        *)
(***************************************************************************)
C21_ClaudeToolConfiguration ==
    \A k \in 1..Len(out) :
        ClaudeRequest(k)
        => LET req == out[k].request[1]
               t   == input.test_case
           IN  /\ req.api = "invoke_model"
               /\ IF t.tools # <<>>
                  THEN /\ req.tools = t.tools
                       /\ req.tool_choice # <<>>
                       /\ req.tool_choice[1].type = "auto"
                  ELSE IF t.schema # <<>>
                  THEN /\ req.tools # <<>>
                       /\ Len(req.tools[1]) = 1
                       /\ req.tools[1][1].schema = t.schema[1]
                       /\ req.tool_choice # <<>>
                       /\ req.tool_choice[1].type = "tool"
                       /\ req.tool_choice[1].name = req.tools[1][1].name
                  ELSE req.tools = <<>> /\ req.tool_choice = <<>>

C21_Witness ==
    /\ Len(out) = 1
    /\ ClaudeRequest(1)
    /\ input.test_case.tools = <<>>
    /\ input.test_case.schema # <<>>
    /\ input.test_case.schema[1].props # <<>>
    /\ out[1].request[1].tool_choice = <<[type |-> "tool", name |-> "receipt_test"]>>

\* the payload {"outputs": [e]}
OutputsPayload(e) == [EmptyBody EXCEPT !.outputs = << <<e>> >>]

(***************************************************************************)
(* C22: when the payload of a generic AWS response is a sequence whose     *)
(* first element is an object e, the response text is the one the          *)
(* extraction gives for the payload {"outputs": [e]}: the same fields      *)
(* (text, generation, generated_text) in the same priority.                *)
(***************************************************************************)
C22_ListProbedAsOutputs ==
    \A k \in 1..Len(out) :
        (GenericCall(k) /\ out[k].env.body.isList /\ out[k].env.body.list # <<>>
            /\ out[k].env.body.list[1].isDict)
        => /\ out[k].result.error = <<>>
           /\ out[k].result.response = GenericText(OutputsPayload(out[k].env.body.list[1]))

\* call k went to an AWS-Llama model by the converse call and its body came back
ConverseCall(k) ==
    /\ LlamaCall(k)
    /\ out[k].request # <<>>
    /\ out[k].request[1].api = "converse"

\* usage.outputTokens of a body, 0 when there is none
OutputTokens(body) == IF body.usage = <<>> THEN 0 ELSE GetInt(body.usage[1].outputTokens)

\* the content entries of a body with the output.message path
ContentOf(body) == body.output[1].message[1].content[1]

(***************************************************************************)
(* C23: an AWS-Llama conversation response without the output.message     *)
(* path gives a result without error whose response is the unexpected      *)
(* format diagnostic and whose token count is 0; with the path, the        *)
(* response is the serialized input of the first content entry when that   *)
(* entry is a tool-use entry, else that entry's text, and the token count  *)
(* is usage.outputTokens.                                                  *)
(***************************************************************************)
C23_ConverseExtraction ==
    \A k \in 1..Len(out) :
        ConverseCall(k)
        => LET body == out[k].env.body
           IN  IF body.output = <<>> \/ body.output[1].message = <<>>
               THEN /\ out[k].result.error = <<>>
                    /\ out[k].result.response = "Unexpected Converse response format: {...}"
                    /\ out[k].result.tokens_used = <<0>>
               ELSE (body.output[1].message[1].content # <<>> /\ ContentOf(body) # <<>>)
                    => /\ out[k].result.error = <<>>
                       /\ out[k].result.tokens_used = <<OutputTokens(body)>>
                       /\ IF ContentOf(body)[1].toolUse # <<>>
                          THEN out[k].result.response = JsonDumps(ContentOf(body)[1].toolUse[1][1])
                          ELSE out[k].result.response = ContentOf(body)[1].text[1]

C23_Witness ==
    /\ Len(out) = 1
    /\ ConverseCall(1)
    /\ out[1].env.body.output # <<>>
    /\ out[1].env.body.output[1].message = <<>>
    /\ out[1].result.response = "Unexpected Converse response format: {...}"
====
